---- MODULE Spec2Model ----
(***************************************************************************)
(* A model of pymaid_addons: the uploader (upload_or_update_neurons) and   *)
(* the linked-neuron push (push_all_updates_by_skid).                      *)
(*                                                                         *)
(* Text is modelled as a sequence of tokens: an annotation such as         *)
(*   'LINKED NEURON - copy of skeleton id 42 in project id 7 on server X'  *)
(* is <<"LINKED NEURON", "-", "copy", "of", "skeleton id", "42", "in",     *)
(* "project id", "7", "on server", "X">>.  Python's `sub in text` is the   *)
(* contiguous-subsequence test, str.format is concatenation, and the       *)
(* characters that add_escapes rewrites, ( and ), are tokens of their own, *)
(* and so is the + of a file name.                                         *)
(***************************************************************************)
EXTENDS Integers, Sequences, FiniteSets, TLC

VARIABLES
    source_project,     \* handle: [server, project_id]
    target_project,     \* handle: [server, project_id]
    tgt,                \* the target project: skeleton id -> neuron
    annotation_list,    \* the annotation names of the target project, in
                        \* the order the server lists them
    pc,                 \* "idle", "upload" (inside upload_or_update_neurons),
                        \* "push" (inside push_all_updates_by_skid)
    call,               \* the arguments and locals of the running uploader call
    last,               \* what the last loop iteration of the uploader did
    push,               \* the arguments and locals of the running push
    last_push,          \* what the push did for the annotation it is at
    init_unique,        \* whether the run started with unambiguous links
    calls,              \* calls made so far
    connector_type,     \* the target project's connectors: id -> "absent",
                        \* "null" (linked to no skeleton) or "linked"
    ret,                \* what the last uploader call returned and reported
    volumes,            \* the module's cache: volume id -> geometry
    volume_log,         \* the calls of get_volume_pruned_neurons_by_skid
    src_neuron,         \* the skeleton of the source project that the
                        \* get_*_neurons_by_skid functions are called for
    transform_log,      \* where it comes from, and the last call
    cwd,                \* the working directory of the process
    files,              \* directory -> file name -> content
    tfx,                \* the arguments and locals of the transformix call
    conn,               \* the connect_to_catmaid call and what it came to
    instances,          \* the CatmaidInstance objects created, in order
    source_connector_type,  \* the source project's connectors, as connector_type
    housekeeping,       \* the last delete_unlinked_connectors call
    warp_log            \* the last call of a warp_points function

sync_vars == <<source_project, target_project, tgt, annotation_list,
               pc, call, last, push, last_push, init_unique, calls,
               connector_type, ret>>

volume_vars == <<volumes, volume_log>>

(* what the uploader and the push leave alone *)
transform_vars == <<src_neuron, transform_log>>

transformix_vars == <<cwd, files, tfx>>

connect_vars == <<conn, instances>>

housekeeping_vars == <<source_connector_type, housekeeping>>

io_vars == <<transformix_vars, connect_vars, housekeeping_vars, warp_log>>

aux == <<volume_vars, transform_vars, io_vars>>

vars == <<sync_vars, aux>>

----------------------------------------------------------------------------
(* Bounds *)

MaxBatch == 2               \* neurons in one upload_or_update_neurons call
MaxCalls == 1               \* calls in one run

----------------------------------------------------------------------------
(* Text *)

Contains(s, sub) ==
    \E i \in 1..(Len(s) - Len(sub) + 1) : SubSeq(s, i, i + Len(sub) - 1) = sub

Range(seq) == {seq[i] : i \in 1..Len(seq)}

RECURSIVE SetToSeq(_)
SetToSeq(S) ==
    IF S = {} THEN <<>>
    ELSE LET x == CHOOSE y \in S : TRUE
         IN  <<x>> \o SetToSeq(S \ {x})

RECURSIVE add_escapes(_)
add_escapes(s) ==
    IF s = <<>> THEN <<>>
    ELSE IF Head(s) \in {"(", ")"}
         THEN <<"\\", Head(s)>> \o add_escapes(Tail(s))
         ELSE <<Head(s)>> \o add_escapes(Tail(s))

(* The text a search pattern matches: pymaid matches an annotation name     *)
(* against the pattern as a regular expression anchored at both ends, so an *)
(* escaped character matches the character, a bare parenthesis opens or     *)
(* closes a group and a bare + repeats what precedes it: neither matches    *)
(* the character itself.                                                    *)
RECURSIVE PatternText(_)
PatternText(p) ==
    IF p = <<>> THEN <<>>
    ELSE IF Head(p) = "\\" /\ Len(p) >= 2
         THEN <<p[2]>> \o PatternText(Tail(Tail(p)))
    ELSE IF Head(p) \in {"(", ")", "+"}
         THEN PatternText(Tail(p))
         ELSE <<Head(p)>> \o PatternText(Tail(p))

----------------------------------------------------------------------------
(* Linking relations and annotations *)

EmptyRelation == <<>>
CopyOf == <<"copy", "of">>
TranslationOf == <<"translation", "of">>
ElasticOf == <<"elastic transformation", "of">>
ElasticFlippedOf == <<"elastic transformation", "and flipped", "of">>
RadiusPrunedOf == <<"radius pruned", "of">>
AffineOf(transform_file) ==
    <<"affine transformation using">> \o transform_file \o <<"of">>
VolumePrunedOf(mode, volume_id) ==
    IF mode = "fele"
    THEN <<"pruned", "(", "first entry, last exit", ")", "by vol", volume_id, "of">>
    ELSE <<"pruned", "(", "strict", ")", "by vol", volume_id, "of">>

linking_annotation_target(relation, skid, project) ==
    IF relation = EmptyRelation
    THEN <<"LINKED NEURON", "-", "skeleton id", ToString(skid), "in",
           "project id", ToString(project.project_id), "on server", project.server>>
    ELSE <<"LINKED NEURON", "-">> \o relation \o
         <<"skeleton id", ToString(skid), "in",
           "project id", ToString(project.project_id), "on server", project.server>>

UpdatedAnnotation(start_time) ==
    <<"UPDATED FROM", "LINKED NEURON", "-", start_time>>

IsLinkingAnnotation(a) ==
    Len(a) >= 1 /\ a[1] = "LINKED NEURON"

IsUpdatedAnnotation(a) ==
    Len(a) >= 2 /\ a[1] = "UPDATED FROM" /\ a[2] = "LINKED NEURON"

----------------------------------------------------------------------------
(* The two projects *)

InitialSource == [server |-> "X", project_id |-> 7]
InitialTarget == [server |-> "Y", project_id |-> 8]

SourceSkids == {42, 43}
TargetSkids == {101, 102, 103}
Answers == {"y", "Y", "n", ""}

NoNeuron ==
    [exists |-> FALSE, neuron_name |-> <<>>, annotations |-> {},
     edition_time |-> <<>>]

(* pymaid.get_neuron on the source project.  Skeleton 42 carries what an    *)
(* earlier run left on it: a link written by annotate_source_neuron and an  *)
(* 'UPDATED FROM LINKED NEURON' stamp.                                     *)
get_neuron(skid) ==
    IF skid = 42
    THEN [skeleton_id |-> 42, neuron_name |-> <<"A">>,
          annotations |->
            {<<"tracing">>,
             linking_annotation_target(CopyOf, 900, [server |-> "Y", project_id |-> 8]),
             UpdatedAnnotation("t0")}]
    ELSE [skeleton_id |-> skid, neuron_name |-> <<"B">>,
          annotations |-> {<<"tracing">>}]

(* pymaid.get_skids_by_annotation on the target project: the skeletons that *)
(* carry an annotation the pattern matches.                                 *)
get_skids_by_annotation(T, pattern) ==
    {s \in TargetSkids :
        T[s].exists /\ \E a \in T[s].annotations : a = PatternText(pattern)}

get_neuron_id(skid) == skid + 1000

Min(seq) == CHOOSE m \in {seq[i] : i \in 1..Len(seq)} :
                \A i \in 1..Len(seq) : m <= seq[i]

(* pymaid.upload_neuron: a new skeleton under a fresh id, or the skeleton   *)
(* whose id is forced replaced by the uploaded neuron.                     *)
upload_neuron(T, u, fresh) ==
    LET id == IF u.force_id THEN u.skeleton_id ELSE fresh
    IN  [T EXCEPT ![id] = [exists |-> TRUE, neuron_name |-> u.neuron_name,
                           annotations |-> u.annotations,
                           edition_time |-> <<0, 0>>]]

FreeSkids(T) == {s \in TargetSkids : ~T[s].exists}
FreshSkid(T) == CHOOSE s \in FreeSkids(T) : \A t \in FreeSkids(T) : s <= t

----------------------------------------------------------------------------
(* upload_or_update_neurons: one iteration of its loop over the neurons     *)

NoEvent ==
    [skid |-> 0, idx |-> 0, neuron_name |-> <<>>, fake |-> TRUE, linking_annotation |-> <<>>,
     linked |-> {}, linked_neuron |-> <<>>, source_annotations |-> {},
     report |-> <<>>, prompts |-> <<>>, uploads |-> <<>>, annotated |-> <<>>]

kept_annotations_all(source_neuron) == source_neuron.annotations

(* lines 275-276: the source neuron's own link annotations are dropped *)
kept_annotations(source_neuron) ==
    {a \in source_neuron.annotations : ~Contains(a, <<"LINKED NEURON">>)}

accepted_unless_no(user_input) == user_input # "n"

(* lines 304 and 327: user_input not in ('y', 'Y') refuses *)
accepted(user_input) == user_input \in {"y", "Y"}

(* line 315: edition_time != min(edition_time), for some node *)
is_edited(linked_neuron) ==
    \E i \in 1..Len(linked_neuron.edition_time) :
        linked_neuron.edition_time[i] # Min(linked_neuron.edition_time)

(* lines 350-362: the upload itself, unless this is a dry run *)
do_upload_always(ev, c, source_neuron, annotations, skid_to_update, nid_to_update, force_id) ==
    [ev EXCEPT !.uploads =
        <<[neuron_name |-> source_neuron.neuron_name,
           annotations |-> annotations,
           skeleton_id |-> skid_to_update,
           neuron_id |-> nid_to_update,
           force_id |-> force_id]>>]

do_upload(ev, c, source_neuron, annotations, skid_to_update, nid_to_update, force_id) ==
    IF c.fake
    THEN ev
    ELSE [ev EXCEPT !.uploads =
            <<[neuron_name |-> source_neuron.neuron_name,
               annotations |-> annotations,
               skeleton_id |-> skid_to_update,
               neuron_id |-> nid_to_update,
               force_id |-> force_id]>>]

updated_annotations_of_source(kept, start_time, linked_neuron) ==
    kept \cup {UpdatedAnnotation(start_time)}

(* lines 337-341: the stamp of this update is appended and the annotations  *)
(* of the linked neuron are preserved                                       *)
updated_annotations(kept, start_time, linked_neuron) ==
    kept \cup {UpdatedAnnotation(start_time)} \cup linked_neuron.annotations

skips_update_never(refuse_to_update) == FALSE

(* lines 331-333: refuse_to_update skips the update of a linked neuron *)
skips_update(refuse_to_update) == refuse_to_update

(* lines 238-362.  The lookup of lines 262-273 answers with the skeletons   *)
(* the pattern matches; its except clause turns pymaid's 'no matching       *)
(* annotation' into the empty list, which is what the lookup gives here.    *)
upload_iteration(T, source_neuron, c, name_answer, edit_answer) ==
    LET link == linking_annotation_target(c.linking_relation,
                                          source_neuron.skeleton_id, c.source)
        linked_neuron_skid == get_skids_by_annotation(T, add_escapes(link))
        kept == kept_annotations(source_neuron)
        ev0 == [NoEvent EXCEPT !.skid = source_neuron.skeleton_id,
                               !.idx = c.idx,
                               !.neuron_name = source_neuron.neuron_name,
                               !.fake = c.fake,
                               !.linking_annotation = link,
                               !.linked = linked_neuron_skid,
                               !.source_annotations = source_neuron.annotations]
    IN
    IF Cardinality(linked_neuron_skid) = 0
    THEN do_upload([ev0 EXCEPT !.report = <<[kind |-> "new", skid |-> 0]>>],
                   c, source_neuron,
                   kept \cup {link, UpdatedAnnotation(c.start_time)},
                   0, 0, FALSE)
    ELSE IF Cardinality(linked_neuron_skid) # 1
    THEN do_upload([ev0 EXCEPT !.report = <<[kind |-> "multiple", skid |-> 0]>>],
                   c, source_neuron, kept, 0, 0, FALSE)
    ELSE
    LET linked_skid == CHOOSE s \in linked_neuron_skid : TRUE
        linked_neuron == T[linked_skid]
        ev1 == [ev0 EXCEPT !.report = <<[kind |-> "update", skid |-> linked_skid]>>,
                           !.linked_neuron = <<linked_neuron>>]
        names_differ == source_neuron.neuron_name # linked_neuron.neuron_name
        ev2 == IF names_differ
               THEN [ev1 EXCEPT !.prompts = <<[kind |-> "name", answer |-> name_answer]>>]
               ELSE ev1
        ev3 == IF is_edited(linked_neuron)
               THEN [ev2 EXCEPT !.prompts =
                        Append(ev2.prompts, [kind |-> "edited", answer |-> edit_answer])]
               ELSE ev2
    IN
    IF names_differ /\ ~accepted(name_answer) THEN ev2
    ELSE IF is_edited(linked_neuron) /\ ~accepted(edit_answer) THEN ev3
    ELSE IF skips_update(c.refuse_to_update) THEN ev3
    ELSE do_upload(ev3, c, source_neuron,
                   updated_annotations(kept, c.start_time, linked_neuron),
                   linked_skid, get_neuron_id(linked_skid), TRUE)

----------------------------------------------------------------------------
(* The operations that read source neurons, transform them and hand them    *)
(* to upload_or_update_neurons.  Only what the uploader reads of a neuron   *)
(* is kept here: its skeleton id, its name and its annotations.             *)

Ops == {"upload", "copy", "translate", "affine", "affine_plus", "elastic",
        "elastic_flip", "volume_prune", "volume_prune_strict", "radius_prune"}

(* the transform_file of the affine transform: 'reflect_x.txt' for "affine" *)
(* and 'flip+shift.txt' for "affine_plus"                                   *)
TransformFile == <<"reflect_x.txt">>
PlusTransformFile == <<"flip", "+", "shift.txt">>

linking_relation_of(op) ==
    CASE op = "upload" -> EmptyRelation
      [] op = "copy" -> CopyOf
      [] op = "translate" -> TranslationOf
      [] op = "affine" -> AffineOf(TransformFile)
      [] op = "affine_plus" -> AffineOf(PlusTransformFile)
      [] op = "elastic" -> ElasticOf
      [] op = "elastic_flip" -> ElasticFlippedOf
      [] op = "volume_prune" -> VolumePrunedOf("fele", "109")
      [] op = "volume_prune_strict" -> VolumePrunedOf("strict", "109")
      [] op = "radius_prune" -> RadiusPrunedOf

(* get_*_neurons_by_skid: what each does to the name and the annotations *)
transformed(op, n) ==
    CASE op \in {"upload", "copy"} -> n
      [] op = "translate" ->
            [n EXCEPT !.neuron_name = @ \o <<"-", "translated">>]
      [] op \in {"affine", "affine_plus"} ->
            [n EXCEPT !.neuron_name = @ \o <<"-", "affine transform">>]
      [] op = "elastic" ->
            [n EXCEPT !.neuron_name = @ \o <<"-", "elastic transform">>]
      [] op = "elastic_flip" ->
            [n EXCEPT !.neuron_name = @ \o <<"-", "elastic transform", "-", "flipped">>,
                      !.annotations = @ \cup {<<"left-right flipped">>}]
      [] op = "volume_prune" ->
            [n EXCEPT !.neuron_name = @ \o <<"-", "pruned by vol", "109">>,
                      !.annotations = @ \cup
                        {<<"pruned", "(", "first entry, last exit", ")", "by vol", "109">>}]
      [] op = "volume_prune_strict" ->
            [n EXCEPT !.neuron_name = @ \o <<"-", "pruned by vol", "109">>,
                      !.annotations = @ \cup
                        {<<"pruned", "(", "strict", ")", "by vol", "109">>}]
      [] op = "radius_prune" ->
            [n EXCEPT !.neuron_name = @ \o <<"-", "radius", "500">>,
                      !.annotations = @ \cup {<<"pruned to nodes with radius 500">>}]

neurons_by_skid(op, skids) ==
    [i \in 1..Len(skids) |-> transformed(op, get_neuron(skids[i]))]

----------------------------------------------------------------------------
(* upload_or_update_neurons as a call: entry, loop, return *)

IdleCall ==
    [neurons |-> <<>>, idx |-> 0, linking_relation |-> <<>>, fake |-> TRUE,
     refuse_to_update |-> TRUE, annotate_source_neuron |-> FALSE,
     start_time |-> "", source |-> [server |-> "", project_id |-> 0],
     server_responses |-> <<>>, unlinked_connectors_start |-> {}]

(* Connectors of the target project.  Lines 47-62: a connector whose type   *)
(* is null is taken to be linked to no skeleton.                            *)
ConnectorIds == {1, 2}

find_unlinked_connectors(connectors) ==
    {c \in ConnectorIds : connectors[c] = "null"}

(* pymaid.upload_neuron and the tracers at work in the target project: the  *)
(* connectors the project has may lose their links, or get linked.          *)
connectors_after_upload(connectors) ==
    {after \in [ConnectorIds -> {"absent", "null", "linked"}] :
        \A c \in ConnectorIds : after[c] = "absent" <=> connectors[c] = "absent"}

newly_unlinked_by_count(unlinked_connectors_start, unlinked_connectors_end) ==
    IF Cardinality(unlinked_connectors_end) > Cardinality(unlinked_connectors_start)
    THEN unlinked_connectors_end \ unlinked_connectors_start
    ELSE {}

(* line 410 *)
newly_unlinked_connectors(unlinked_connectors_start, unlinked_connectors_end) ==
    unlinked_connectors_end \ unlinked_connectors_start

NoReturn ==
    [returned |-> FALSE, server_responses |-> <<>>, rescanned |-> FALSE,
     warned_of |-> {}]

(* lines 394-420: the end of the call.  With fake the settings are printed; *)
(* otherwise the unlinked connectors are searched again and the new ones    *)
(* are printed with a warning, which input() holds until it is answered.    *)
(* Line 420 returns server_responses either way.                            *)
returned_from(c, connectors) ==
    [returned |-> TRUE,
     server_responses |-> c.server_responses,
     rescanned |-> ~c.fake,
     warned_of |-> IF c.fake THEN {}
                ELSE newly_unlinked_connectors(c.unlinked_connectors_start,
                                               find_unlinked_connectors(connectors))]

Batches == UNION {[1..n -> SourceSkids] : n \in 1..MaxBatch}

(* The state after one iteration: the event (with the annotation that       *)
(* add_annotations put on the source neuron, lines 364-379), the target     *)
(* project and the server's response.  `ok` is whether the target project   *)
(* of the model has an id left for a new skeleton, when one is created.     *)
after_iteration(T, target, c, source_neuron, name_answer, edit_answer) ==
    LET ev == upload_iteration(T, source_neuron, c, name_answer, edit_answer)
    IN  IF ev.uploads = <<>>
        THEN [ok |-> TRUE, ev |-> ev, tgt |-> T, responses |-> <<>>]
        ELSE IF ~ev.uploads[1].force_id /\ FreeSkids(T) = {}
        THEN [ok |-> FALSE, ev |-> ev, tgt |-> T, responses |-> <<>>]
        ELSE LET u == ev.uploads[1]
                 id == IF u.force_id THEN u.skeleton_id ELSE FreshSkid(T)
                 source_annotation ==
                    linking_annotation_target(c.linking_relation, id, target)
             IN  [ok |-> TRUE,
                  ev |-> IF c.annotate_source_neuron
                         THEN [ev EXCEPT !.annotated = <<source_annotation>>]
                         ELSE ev,
                  tgt |-> upload_neuron(T, u, id),
                  responses |-> <<id>>]

UploadCall(op, skids, fake, refuse, annotate) ==
    /\ pc = "idle"
    /\ calls < MaxCalls
    /\ calls' = calls + 1
    /\ pc' = "upload"
    /\ call' = [IdleCall EXCEPT !.neurons = neurons_by_skid(op, skids),
                                !.idx = 1,
                                !.linking_relation = linking_relation_of(op),
                                !.fake = fake,
                                !.refuse_to_update = refuse,
                                !.annotate_source_neuron = annotate,
                                !.start_time = "t1",
                                !.source = source_project,
                                !.unlinked_connectors_start =
                                    find_unlinked_connectors(connector_type)]
    /\ last' = NoEvent
    /\ ret' = NoReturn
    /\ UNCHANGED <<source_project, target_project, tgt, annotation_list,
                   push, last_push, init_unique, connector_type, aux>>

(* input() is read only when its prompt is shown: an answer to a prompt     *)
(* that is not shown is no input of the iteration.                          *)
AnswersRead(T, source_neuron, c, kind) ==
    IF \E ev \in {upload_iteration(T, source_neuron, c, "y", "y")} :
          \E i \in 1..Len(ev.prompts) : ev.prompts[i].kind = kind
    THEN Answers
    ELSE {""}

UploadIteration ==
    /\ pc = "upload"
    /\ call.idx <= Len(call.neurons)
    /\ \E name_answer \in AnswersRead(tgt, call.neurons[call.idx], call, "name"),
          edit_answer \in AnswersRead(tgt, call.neurons[call.idx], call, "edited") :
        \E r \in {after_iteration(tgt, target_project, call,
                                  call.neurons[call.idx], name_answer, edit_answer)} :
               /\ r.ok
               /\ last' = r.ev
               /\ tgt' = r.tgt
               /\ annotation_list' = annotation_list \o
                    SetToSeq(UNION {r.tgt[s].annotations : s \in TargetSkids}
                             \ Range(annotation_list))
               /\ call' = [call EXCEPT !.idx = @ + 1,
                                       !.server_responses = @ \o r.responses]
               /\ connector_type' \in IF r.responses = <<>>
                                       THEN {connector_type}
                                       ELSE connectors_after_upload(connector_type)
    /\ UNCHANGED <<source_project, target_project, pc, push, last_push,
                   init_unique, calls, ret, aux>>

UploadReturn ==
    /\ pc = "upload"
    /\ call.idx > Len(call.neurons)
    /\ pc' = "idle"
    /\ call' = IdleCall
    /\ last' = NoEvent
    /\ ret' = returned_from(call, connector_type)
    /\ UNCHANGED <<source_project, target_project, tgt, annotation_list,
                   push, last_push, init_unique, calls, connector_type, aux>>

----------------------------------------------------------------------------
(* push_all_updates_by_skid (line numbers are those of                      *)
(* linked_neuron_tools.py)                                                  *)

MaxPasses == 3              \* passes of the push's while loop that are counted
MaxResponses == 4           \* server responses of a push that are recorded

link_types_without_translation ==
    <<[keyword |-> CopyOf, op |-> "copy"],
      [keyword |-> ElasticOf, op |-> "elastic"],
      [keyword |-> ElasticFlippedOf, op |-> "elastic_flip"],
      [keyword |-> <<"pruned", "\\", "(", "first entry, last exit", "\\", ")",
                     "by vol", "109", "of">>,
       op |-> "volume_prune"],
      [keyword |-> RadiusPrunedOf, op |-> "radius_prune"]>>

(* link_types, in the order the dictionary lists its keys.  The keyword of  *)
(* the volume pruning is written with escaped parentheses.                  *)
link_types ==
    <<[keyword |-> CopyOf, op |-> "copy"],
      [keyword |-> TranslationOf, op |-> "translate"],
      [keyword |-> ElasticOf, op |-> "elastic"],
      [keyword |-> ElasticFlippedOf, op |-> "elastic_flip"],
      [keyword |-> <<"pruned", "\\", "(", "first entry, last exit", "\\", ")",
                     "by vol", "109", "of">>,
       op |-> "volume_prune"],
      [keyword |-> RadiusPrunedOf, op |-> "radius_prune"]>>

IdlePush ==
    [skids |-> <<>>, recurse |-> FALSE, fake |-> TRUE, translation |-> FALSE,
     skip_dates |-> <<>>, all_target_annots |-> <<>>,
     original_source_project_id |-> 0, new_skids |-> <<>>,
     phase |-> "", passes |-> 0, target_annots |-> <<>>, pos |-> 0,
     target_skids |-> {}, this_target_skid_annots |-> {}, pending |-> <<>>,
     server_responses |-> <<>>]

NoPushEvent ==
    [source_skid |-> 0, target_annot |-> <<>>, target_skids |-> {},
     prompted |-> FALSE, dispatched |-> <<>>, skipped |-> <<>>,
     raised |-> FALSE, returned |-> FALSE, passes |-> 0]

(* 'skeleton id N ' in annot: the text, followed by a space and so by more *)
ContainsFollowed(s, sub) ==
    \E i \in 1..(Len(s) - Len(sub)) : SubSeq(s, i, i + Len(sub) - 1) = sub

(* lines 98-100: the annotations that name the source skid and the source   *)
(* project, escaped                                                         *)
target_annots(all_target_annots, source_skid, project_id) ==
    LET names(annot) ==
            /\ ContainsFollowed(annot, <<"skeleton id", ToString(source_skid)>>)
            /\ ContainsFollowed(annot, <<"project id", ToString(project_id)>>)
        selected == SelectSeq(all_target_annots, names)
    IN  [i \in 1..Len(selected) |->
            [source_skid |-> source_skid, target_annot |-> add_escapes(selected[i])]]

(* lines 97-100: the annotations one pass of the loop over skids goes through *)
RECURSIVE pass_annots(_, _, _)
pass_annots(all_target_annots, skids, project_id) ==
    IF skids = <<>> THEN <<>>
    ELSE target_annots(all_target_annots, Head(skids), project_id)
         \o pass_annots(all_target_annots, Tail(skids), project_id)

lookup_outcome_first(target_skids) ==
    IF Cardinality(target_skids) = 0 THEN "continue" ELSE "dispatch"

(* lines 104-111 *)
lookup_outcome(target_skids) ==
    IF Cardinality(target_skids) = 0 THEN "continue"
    ELSE IF Cardinality(target_skids) # 1 THEN "prompt"
    ELSE "dispatch"

(* lines 116-117: every keyword of link_types that the annotation contains, *)
(* in the order of the dictionary                                           *)
matching_relations(target_annot) ==
    LET found(entry) == Contains(target_annot, entry.keyword)
    IN  SelectSeq(link_types, found)

(* lines 121-122: whether one of skip_dates is in an annotation of the      *)
(* target skeleton                                                          *)
updated_recently(skip_dates, this_target_skid_annots) ==
    /\ Len(skip_dates) > 0
    /\ \E annot \in this_target_skid_annots :
          \E i \in 1..Len(skip_dates) : Contains(annot, <<skip_dates[i]>>)

(* pymaid.get_neuron(skid, remote_instance=source_project): the handle may  *)
(* point at the source project or, while the push recurses, at the project  *)
(* with the target's id on the source's server.  No neuron: pymaid raises.  *)
get_neuron_from(handle, T, target, skid) ==
    IF handle = InitialSource /\ skid \in SourceSkids
    THEN <<get_neuron(skid)>>
    ELSE IF handle = target /\ skid \in TargetSkids /\ T[skid].exists
    THEN <<[skeleton_id |-> skid, neuron_name |-> T[skid].neuron_name,
            annotations |-> T[skid].annotations]>>
    ELSE <<>>

(* The *_neurons_by_skid function of a link type, called with the keyword   *)
(* arguments of the push: the neurons it hands to upload_or_update_neurons, *)
(* or the exception it raises before the uploader runs.                     *)
neurons_for_push(op, source_skid, translation, handle, T, target) ==
    LET found == get_neuron_from(handle, T, target, source_skid)
        Raised == [raised |-> TRUE, neurons |-> <<>>]
    IN  IF op = "translate" /\ ~translation THEN Raised
        ELSE IF found = <<>> THEN Raised
        ELSE IF op = "radius_prune" /\ Contains(found[1].neuron_name, <<"radius">>)
        THEN Raised
        ELSE IF op = "volume_prune" /\ Contains(found[1].neuron_name, <<"pruned by vol">>)
        THEN Raised
        ELSE IF op # "translate" /\ translation THEN Raised
        ELSE [raised |-> FALSE, neurons |-> <<transformed(op, found[1])>>]

PushBatches == {<<>>} \cup Batches
SkipDates == {<<>>, <<"t0">>}

(* lines 63-94: the entry of the push, up to the while loop *)
PushCall(skids, recurse, fake, translation, skip_dates) ==
    /\ pc = "idle"
    /\ calls < MaxCalls
    /\ calls' = calls + 1
    /\ pc' = "push"
    /\ push' = [IdlePush EXCEPT !.skids = skids,
                                !.recurse = recurse,
                                !.fake = fake,
                                !.translation = translation,
                                !.skip_dates = skip_dates,
                                !.all_target_annots = annotation_list,
                                !.original_source_project_id = source_project.project_id,
                                !.new_skids = skids,
                                !.phase = "while"]
    /\ last' = NoEvent
    /\ last_push' = NoPushEvent
    /\ UNCHANGED <<source_project, target_project, tgt, annotation_list,
                   call, init_unique, connector_type, ret, aux>>

(* lines 95-100: the while test holds and a pass over skids begins *)
PushPass ==
    /\ pc = "push"
    /\ push.phase = "while"
    /\ Len(push.new_skids) > 0
    /\ push' = [push EXCEPT !.new_skids = <<>>,
                            !.passes = IF @ < MaxPasses THEN @ + 1 ELSE @,
                            !.target_annots =
                                pass_annots(push.all_target_annots, push.skids,
                                            source_project.project_id),
                            !.pos = 1,
                            !.phase = "for"]
    /\ last' = NoEvent
    /\ last_push' = NoPushEvent
    /\ UNCHANGED <<source_project, target_project, tgt, annotation_list,
                   pc, call, init_unique, calls, connector_type, ret, aux>>

(* lines 103-114: the target skeletons that carry the annotation *)
PushLookup ==
    /\ pc = "push"
    /\ push.phase = "for"
    /\ push.pos <= Len(push.target_annots)
    /\ LET w == push.target_annots[push.pos]
           target_skids == get_skids_by_annotation(tgt, w.target_annot)
           relations == IF lookup_outcome(target_skids) = "dispatch"
                        THEN matching_relations(w.target_annot)
                        ELSE <<>>
       IN  /\ last_push' = [NoPushEvent EXCEPT
                                !.source_skid = w.source_skid,
                                !.target_annot = w.target_annot,
                                !.target_skids = target_skids,
                                !.prompted = (lookup_outcome(target_skids) = "prompt")]
           /\ push' = [push EXCEPT
                        !.target_skids = target_skids,
                        !.this_target_skid_annots =
                            IF lookup_outcome(target_skids) = "dispatch"
                               /\ Len(push.skip_dates) > 0
                            THEN UNION {tgt[s].annotations : s \in target_skids}
                            ELSE {},
                        !.pending = relations,
                        !.phase = IF relations = <<>> THEN "for" ELSE "keys",
                        !.pos = IF relations = <<>> THEN @ + 1 ELSE @]
    /\ last' = NoEvent
    /\ UNCHANGED <<source_project, target_project, tgt, annotation_list,
                   pc, call, init_unique, calls, connector_type, ret, aux>>

(* line 129: the responses, of which the first MaxResponses are recorded *)
extend(server_responses, resp) ==
    SubSeq(server_responses \o resp, 1,
           IF Len(server_responses \o resp) < MaxResponses
           THEN Len(server_responses \o resp) ELSE MaxResponses)

(* what lines 126-129 leave behind when the body of the keyword loop is done *)
after_relation(p) ==
    [p EXCEPT !.pending = Tail(@),
              !.phase = IF Tail(p.pending) = <<>> THEN "for" ELSE "keys",
              !.pos = IF Tail(p.pending) = <<>> THEN @ + 1 ELSE @,
              !.new_skids = IF p.recurse /\ ~p.fake
                            THEN @ \o SetToSeq(p.target_skids)
                            ELSE @]

(* lines 116-129: the next keyword the annotation contains.  The function   *)
(* of the link type runs, upload_or_update_neurons included, unless the     *)
(* target skeleton carries one of skip_dates.  dispatched is what the push  *)
(* and the target project are after it, for the uploader's result r.        *)
dispatched(p, event, annots, r) ==
    [push |-> [after_relation(p) EXCEPT
                  !.server_responses =
                      extend(@, [i \in 1..Len(r.responses) |-> ToString(r.responses[i])])],
     last_push |-> [event EXCEPT !.dispatched = Append(@, Head(p.pending).op)],
     last |-> r.ev,
     tgt |-> r.tgt,
     uploaded |-> r.responses # <<>>,
     annotation_list |-> annots \o
        SetToSeq(UNION {r.tgt[s].annotations : s \in TargetSkids} \ Range(annots))]

(* the uploader's results for the neuron of the link type, one for each way *)
(* the prompts it shows can be answered                                    *)
uploads_for_push(p, T, source, target) ==
    LET entry == Head(p.pending)
        n == neurons_for_push(entry.op, p.target_annots[p.pos].source_skid,
                              p.translation, source, T, target)
        c == [IdleCall EXCEPT !.neurons = n.neurons,
                              !.idx = 1,
                              !.linking_relation = linking_relation_of(entry.op),
                              !.fake = p.fake,
                              !.refuse_to_update = FALSE,
                              !.start_time = "t1",
                              !.source = source]
    IN  IF n.raised THEN {}
        ELSE {r \in {after_iteration(T, target, c, n.neurons[1], name_answer, edit_answer) :
                        name_answer \in AnswersRead(T, n.neurons[1], c, "name"),
                        edit_answer \in AnswersRead(T, n.neurons[1], c, "edited")} :
                r.ok}

dispatch_results(p, event, ev, T, annots, source, target) ==
    IF updated_recently(p.skip_dates, p.this_target_skid_annots)
    THEN {[push |-> [after_relation(p) EXCEPT
                        !.server_responses = extend(@, <<"Skipped">>)],
           last_push |-> [event EXCEPT !.skipped = Append(@, Head(p.pending).op)],
           last |-> ev,
           tgt |-> T,
           uploaded |-> FALSE,
           annotation_list |-> annots]}
    ELSE {dispatched(p, event, annots, r) :
            r \in uploads_for_push(p, T, source, target)}

PushDispatch ==
    /\ pc = "push"
    /\ push.phase = "keys"
    /\ \E d \in dispatch_results(push, last_push, last, tgt, annotation_list,
                                 source_project, target_project) :
        /\ push' = d.push
        /\ last_push' = d.last_push
        /\ last' = d.last
        /\ tgt' = d.tgt
        /\ annotation_list' = d.annotation_list
        /\ connector_type' \in IF d.uploaded
                                THEN connectors_after_upload(connector_type)
                                ELSE {connector_type}
    /\ UNCHANGED <<source_project, target_project, pc, call, init_unique, calls, ret, aux>>

(* lines 116-123: the function of the link type raises, and the exception   *)
(* leaves the push where it is                                              *)
PushDispatchRaises ==
    /\ pc = "push"
    /\ push.phase = "keys"
    /\ ~updated_recently(push.skip_dates, push.this_target_skid_annots)
    /\ neurons_for_push(Head(push.pending).op,
                        push.target_annots[push.pos].source_skid, push.translation,
                        source_project, tgt, target_project).raised
    /\ pc' = "idle"
    /\ push' = IdlePush
    /\ last_push' = [last_push EXCEPT !.dispatched = Append(@, Head(push.pending).op),
                                      !.raised = TRUE]
    /\ UNCHANGED <<source_project, target_project, tgt, annotation_list,
                   call, last, init_unique, calls, connector_type, ret, aux>>

(* lines 130-133: the end of a pass *)
PushPassEnd ==
    /\ pc = "push"
    /\ push.phase = "for"
    /\ push.pos > Len(push.target_annots)
    /\ IF push.recurse /\ ~push.fake
       THEN /\ source_project' = [source_project EXCEPT
                                    !.project_id = target_project.project_id]
            /\ push' = [push EXCEPT !.skids = push.new_skids, !.phase = "while"]
       ELSE /\ push' = [push EXCEPT !.phase = "while"]
            /\ UNCHANGED source_project
    /\ UNCHANGED <<target_project, tgt, annotation_list, pc, call, last,
                   last_push, init_unique, calls, connector_type, ret, aux>>

after_push_as_left(handle, p) == handle

(* lines 134-135: the source handle when the push returns *)
after_push(handle, p) ==
    IF p.recurse /\ ~p.fake
    THEN [handle EXCEPT !.project_id = p.original_source_project_id]
    ELSE handle

(* lines 95 and 134-137: the while test fails and the push returns *)
PushReturn ==
    /\ pc = "push"
    /\ push.phase = "while"
    /\ Len(push.new_skids) = 0
    /\ source_project' = after_push(source_project, push)
    /\ pc' = "idle"
    /\ push' = IdlePush
    /\ last_push' = [NoPushEvent EXCEPT !.returned = TRUE, !.passes = push.passes]
    /\ UNCHANGED <<target_project, tgt, annotation_list, call, last,
                   init_unique, calls, connector_type, ret, aux>>

----------------------------------------------------------------------------
(* The geometry of a neuron and the get_*_neurons_by_skid functions         *)
(* (manipulate_and_reupload_catmaid_neurons.py).  A neuron is what          *)
(* pymaid.get_neuron returns: nodes is its node table, node_id ->           *)
(* [parent_id, x, y, z, radius], the root's parent_id being -1; connectors  *)
(* is its connector table, connector_id -> [node_id, x, y, z].              *)

MaxNodes == 5               \* nodes of a tree that is pruned by volume

PRIMARY_NEURITE_RADIUS == 500
NoParent == 0 - 1

Node(parent_id, x, y, radius) ==
    [parent_id |-> parent_id, x |-> x, y |-> y, z |-> 0, radius |-> radius]

children(nodes, n) == {c \in DOMAIN nodes : nodes[c].parent_id = n}

RECURSIVE ancestors(_, _)
ancestors(nodes, n) ==
    IF nodes[n].parent_id \notin DOMAIN nodes THEN {}
    ELSE {nodes[n].parent_id} \cup ancestors(nodes, nodes[n].parent_id)

(* the nodes on the far side of n from the root *)
distal_to(nodes, n) == {d \in DOMAIN nodes : n \in ancestors(nodes, d)}

roots(nodes) == {n \in DOMAIN nodes : nodes[n].parent_id \notin DOMAIN nodes}

(* the `type` column of the node table *)
node_type(nodes, n) ==
    IF nodes[n].parent_id \notin DOMAIN nodes THEN "root"
    ELSE IF Cardinality(children(nodes, n)) > 1 THEN "branch"
    ELSE IF children(nodes, n) = {} THEN "end"
    ELSE "slab"

(* navis.subset_neuron: the nodes that are kept, a node whose parent is not *)
(* kept becoming a root, and the connectors of the kept nodes               *)
subset_neuron(neuron, kept) ==
    [neuron EXCEPT
        !.nodes = [n \in kept |->
                     IF neuron.nodes[n].parent_id \in kept THEN neuron.nodes[n]
                     ELSE [neuron.nodes[n] EXCEPT !.parent_id = NoParent]],
        !.connectors = [c \in {c \in DOMAIN neuron.connectors :
                                 neuron.connectors[c].node_id \in kept} |->
                          neuron.connectors[c]]]

n_skeletons(neuron) == Cardinality(roots(neuron.nodes))

Raises(error) == [raised |-> error]
Returns(neuron) == [raised |-> "", neuron |-> neuron]

(* lines 557-595.  unit_is_literal is whether `unit is 'pixel'` finds the   *)
(* string it is given to be the very object of the literal: an equal string *)
(* that was built at run time is another object.                            *)
PixelSize == <<4, 4, 40>>

(* lines 568-577 *)
applied_translation(translation, unit, pixel_size, unit_is_literal) ==
    IF unit = "pixel" /\ unit_is_literal
    THEN <<translation[1] * pixel_size[1], translation[2] * pixel_size[2],
           translation[3] * pixel_size[3]>>
    ELSE translation

moved(table, t) ==
    [k \in DOMAIN table |-> [table[k] EXCEPT !.x = @ + t[1], !.y = @ + t[2],
                                             !.z = @ + t[3]]]

get_translated_neurons_by_skid(neuron, translation, unit, pixel_size, unit_is_literal) ==
    IF Len(translation) # 3 THEN Raises("ValueError")
    ELSE IF unit \notin {"nm", "pixel"} THEN Raises("ValueError")
    ELSE LET t == applied_translation(translation, unit, pixel_size, unit_is_literal)
         IN  Returns([transformed("translate", neuron) EXCEPT
                         !.nodes = moved(@, t),
                         !.connectors = moved(@, t)])

(* lines 651-681: [x, y, z, 1] times the matrix of the transform file, here *)
(* the one that mirrors x and shifts y by one                               *)
affine(table) ==
    [k \in DOMAIN table |-> [table[k] EXCEPT !.x = 0 - @, !.y = @ + 1]]

get_affinetransformed_neurons_by_skid(neuron) ==
    Returns([transformed("affine", neuron) EXCEPT
                !.nodes = affine(@), !.connectors = affine(@)])

(* lines 746-808, with a transform that is given (no y cutoff) and that     *)
(* doubles x, or doubles and mirrors it with left_right_flip                *)
warp(table, left_right_flip) ==
    [k \in DOMAIN table |->
        [table[k] EXCEPT !.x = IF left_right_flip THEN 0 - 2 * @ ELSE 2 * @]]

get_elastictransformed_neurons_by_skid(neuron, left_right_flip, include_connectors) ==
    Returns([transformed(IF left_right_flip THEN "elastic_flip" ELSE "elastic", neuron)
             EXCEPT !.nodes = warp(@, left_right_flip),
                    !.connectors = IF include_connectors
                                   THEN warp(@, left_right_flip) ELSE @])

radius_kept_all(nodes, radius_to_keep, keep_larger_radii) == DOMAIN nodes

(* lines 1127-1136 *)
radius_kept(nodes, radius_to_keep, keep_larger_radii) ==
    IF keep_larger_radii
    THEN {n \in DOMAIN nodes : nodes[n].radius >= radius_to_keep}
    ELSE {n \in DOMAIN nodes : nodes[n].radius = radius_to_keep}

(* lines 1113-1146 *)
get_radius_pruned_neurons_by_skid(neuron, radius_to_keep, keep_larger_radii) ==
    IF Contains(neuron.neuron_name, <<"radius">>) THEN Raises("Exception")
    ELSE LET pruned == subset_neuron(neuron,
                          radius_kept(neuron.nodes, radius_to_keep, keep_larger_radii))
         IN  IF n_skeletons(pruned) > 1 THEN Raises("Exception")
             ELSE Returns([pruned EXCEPT
                    !.annotations = @ \cup {<<"pruned to nodes with radius 500">>},
                    !.neuron_name = @ \o <<"-", "radius", ToString(radius_to_keep)>>])

(* lines 1082-1099: the neurons radius_prune_neurons_by_skid hands to       *)
(* upload_or_update_neurons                                                 *)
radius_prune_neurons_by_skid(neuron, radius_to_keep, keep_larger_radii) ==
    get_radius_pruned_neurons_by_skid(neuron, radius_to_keep, TRUE)

(* Pruning by volume, lines 966-1054, for one neuron, resample and          *)
(* only_keep_largest_fragment left at their defaults.  A volume is a box,   *)
(* lo <= x <= hi; navis.in_volume tells which nodes are in it.              *)
in_volume(node, volume) == volume.lo <= node.x /\ node.x <= volume.hi

(* lines 985-992 *)
prim_neurite_end(nodes) ==
    {n \in DOMAIN nodes :
        /\ nodes[n].radius = PRIMARY_NEURITE_RADIUS
        /\ ~\E c \in children(nodes, n) : nodes[c].radius = PRIMARY_NEURITE_RADIUS}

first_of(S) == CHOOSE n \in S : \A m \in S : n <= m

(* lines 1005-1012: from the end of the primary neurite towards the root,   *)
(* as long as the parent is neither a branch point nor in the volume.  The  *)
(* root's parent_id is no label of the table: nodes.at raises KeyError.     *)
RECURSIVE walk_back(_, _, _)
walk_back(nodes, volume, current_node) ==
    IF nodes[current_node].parent_id \notin DOMAIN nodes
    THEN [raised |-> "KeyError", node |-> current_node]
    ELSE IF /\ node_type(nodes, nodes[current_node].parent_id) # "branch"
            /\ ~in_volume(nodes[nodes[current_node].parent_id], volume)
    THEN walk_back(nodes, volume, nodes[current_node].parent_id)
    ELSE [raised |-> "", node |-> current_node]

(* lines 1020-1023: from the root's child away from the root, as long as    *)
(* the node is a slab outside the volume                                    *)
RECURSIVE walk_forward(_, _, _)
walk_forward(nodes, volume, current_node) ==
    IF ~in_volume(nodes[current_node], volume) /\ node_type(nodes, current_node) = "slab"
    THEN walk_forward(nodes, volume, first_of(children(nodes, current_node)))
    ELSE current_node

prune_distal_from(neuron, node) ==
    subset_neuron(neuron, DOMAIN neuron.nodes \ ({node} \cup distal_to(neuron.nodes, node)))

(* navis prune_distal_to and prune_proximal_to: the cut node stays *)
prune_distal_to(neuron, node) ==
    subset_neuron(neuron, DOMAIN neuron.nodes \ distal_to(neuron.nodes, node))

prune_proximal_to(neuron, node) ==
    subset_neuron(neuron, {node} \cup distal_to(neuron.nodes, node))

(* lines 983-1030 *)
fele_pruned(neuron, volume) ==
    LET nodes == neuron.nodes
        ends == prim_neurite_end(nodes)
    IN  IF Cardinality(ends) # 1 THEN Raises("ValueError")
        ELSE LET back == walk_back(nodes, volume, first_of(ends))
                 starts == {n \in children(nodes, first_of(roots(nodes))) :
                                nodes[n].radius > 0}
             IN  IF back.raised # "" THEN Raises(back.raised)
                 ELSE IF starts = {} THEN Raises("IndexError")
                 ELSE Returns(prune_proximal_to(
                                prune_distal_to(neuron, back.node),
                                walk_forward(nodes, volume, first_of(starts))))

(* line 1033 *)
prune_by_volume(neuron, volume) ==
    subset_neuron(neuron, {n \in DOMAIN neuron.nodes : in_volume(neuron.nodes[n], volume)})

(* lines 966-1050 *)
volume_pruned(neuron, volume, mode, volume_id) ==
    IF Contains(neuron.neuron_name, <<"pruned by vol">>) THEN Raises("Exception")
    ELSE LET pruned == IF mode = "fele" THEN fele_pruned(neuron, volume)
                       ELSE Returns(prune_by_volume(neuron, volume))
         IN  IF pruned.raised # "" THEN pruned
             ELSE Returns([pruned.neuron EXCEPT
                    !.annotations = @ \cup
                        {IF mode = "fele"
                         THEN <<"pruned", "(", "first entry, last exit", ")", "by vol",
                                volume_id>>
                         ELSE <<"pruned", "(", "strict", ")", "by vol", volume_id>>},
                    !.neuron_name = @ \o <<"-", "pruned by vol", volume_id>>])

(* One call of a get_*_neurons_by_skid function for the skeleton src_neuron   *)
(* of the source project: transform_log.last is the call and what it        *)
(* returned.  The functions change nothing in the source project.           *)
NoTransform ==
    [op |-> "", translation |-> <<>>, unit |-> "", unit_is_literal |-> FALSE,
     left_right_flip |-> FALSE, include_connectors |-> FALSE,
     radius_to_keep |-> 0, keep_larger_radii |-> FALSE,
     raised |-> "", returned |-> <<>>]

called(log, entry, result) ==
    [log EXCEPT
        !.last = [entry EXCEPT !.raised = result.raised,
                               !.returned = IF result.raised = "" THEN <<result.neuron>>
                                            ELSE <<>>]]

GetTranslated(translation, unit, unit_is_literal) ==
    /\ transform_log' =
         called(transform_log,
                [NoTransform EXCEPT !.op = "translate", !.translation = translation,
                                    !.unit = unit, !.unit_is_literal = unit_is_literal],
                get_translated_neurons_by_skid(src_neuron, translation, unit,
                                               PixelSize, unit_is_literal))
    /\ UNCHANGED <<sync_vars, volume_vars, src_neuron, io_vars>>

GetAffineTransformed ==
    /\ transform_log' =
         called(transform_log,
                [NoTransform EXCEPT !.op = "affine"],
                get_affinetransformed_neurons_by_skid(src_neuron))
    /\ UNCHANGED <<sync_vars, volume_vars, src_neuron, io_vars>>

GetElasticTransformed(left_right_flip, include_connectors) ==
    /\ transform_log' =
         called(transform_log,
                [NoTransform EXCEPT !.op = "elastic",
                                    !.left_right_flip = left_right_flip,
                                    !.include_connectors = include_connectors],
                get_elastictransformed_neurons_by_skid(src_neuron, left_right_flip,
                                                       include_connectors))
    /\ UNCHANGED <<sync_vars, volume_vars, src_neuron, io_vars>>

GetRadiusPruned(radius_to_keep, keep_larger_radii) ==
    /\ transform_log' =
         called(transform_log,
                [NoTransform EXCEPT !.op = "radius_prune",
                                    !.radius_to_keep = radius_to_keep,
                                    !.keep_larger_radii = keep_larger_radii],
                get_radius_pruned_neurons_by_skid(src_neuron, radius_to_keep,
                                                  keep_larger_radii))
    /\ UNCHANGED <<sync_vars, volume_vars, src_neuron, io_vars>>

(* radius_prune_neurons_by_skid with fake at its default, a dry run that    *)
(* changes nothing in the target project: transform_log.last.returned is    *)
(* the neuron it passes to the uploader                                     *)
RadiusPruneBySkid(radius_to_keep, keep_larger_radii) ==
    /\ transform_log' =
         called(transform_log,
                [NoTransform EXCEPT !.op = "radius_prune_neurons_by_skid",
                                    !.radius_to_keep = radius_to_keep,
                                    !.keep_larger_radii = keep_larger_radii],
                radius_prune_neurons_by_skid(src_neuron, radius_to_keep,
                                             keep_larger_radii))
    /\ UNCHANGED <<sync_vars, volume_vars, src_neuron, io_vars>>

----------------------------------------------------------------------------
(* get_volume_pruned_neurons_by_skid and its volume cache                   *)
(* (manipulate_and_reupload_catmaid_neurons.py, lines 917-1054)             *)

MaxPulls == 2               \* pulls of one volume id that are counted

VolumeIds == {"109", "110"}

(* what pymaid.get_volume can return for an id *)
Geometries == {[lo |-> 2, hi |-> 3], [lo |-> 3, hi |-> 5], [lo |-> 4, hi |-> 4],
               [lo |-> 9, hi |-> 9]}

(* line 917 *)
NoVolumes == [volume_id \in {} |-> [lo |-> 0, hi |-> 0]]

NoVolumeLog ==
    [pulled |-> [volume_id \in VolumeIds |-> 0],
     last |-> [volume_id |-> "", mode |-> "", source |-> "", raised |-> "",
               returned |-> <<>>]]

volume_cached_never(cache, volume_id) == FALSE

(* line 944 *)
volume_cached(cache, volume_id) == volume_id \in DOMAIN cache

(* line 948: volumes[volume_id] = ... *)
cache_put(cache, volume_id, geometry) ==
    [k \in DOMAIN cache \cup {volume_id} |->
        IF k = volume_id THEN geometry ELSE cache[k]]

(* lines 943-955: the cache after the lookup, and whether the remote was    *)
(* asked.  `fetch_fails` and `fetched` are what pymaid.get_volume does when *)
(* it is called: it raises, or it returns a geometry.                       *)
volume_lookup(cache, volume_id, fetch_fails, fetched) ==
    IF volume_cached(cache, volume_id)
    THEN [raised |-> "", source |-> "cache", volumes |-> cache]
    ELSE IF fetch_fails
    THEN [raised |-> "get_volume", source |-> "remote", volumes |-> cache]
    ELSE [raised |-> "", source |-> "remote",
          volumes |-> cache_put(cache, volume_id, fetched)]

(* lines 918-1054 *)
GetVolumePruned(volume_id, mode, fetch_fails, fetched) ==
    /\ volume_log.pulled[volume_id] < MaxPulls
    /\ \E looked \in {volume_lookup(volumes, volume_id, fetch_fails, fetched)} :
        \E result \in {IF looked.raised # "" THEN Raises(looked.raised)
                       ELSE volume_pruned(src_neuron, looked.volumes[volume_id], mode,
                                          volume_id)} :
            /\ volumes' = looked.volumes
            /\ volume_log' =
                 [pulled |-> IF looked.source = "remote" /\ looked.raised = ""
                             THEN [volume_log.pulled EXCEPT ![volume_id] = @ + 1]
                             ELSE volume_log.pulled,
                  last |-> [volume_id |-> volume_id, mode |-> mode,
                            source |-> looked.source, raised |-> result.raised,
                            returned |-> IF result.raised = "" THEN <<result.neuron>>
                                         ELSE <<>>]]
    /\ UNCHANGED <<sync_vars, transform_vars, io_vars>>

----------------------------------------------------------------------------
(* transformix, the wrapper of the point-transform executable               *)
(* (coordinate_transforms/warp_points_between_FANC_and_template.py, lines   *)
(* 89-137).  `files` is the file system as far as the call sees it:         *)
(* directory -> file name -> content; a relative name is looked up in cwd.  *)

StartingDir == "/home/user"
TransformDir == "/opt/transforms"
Dirs == {StartingDir, TransformDir}

(* line 100, in the order of the loop *)
TempFiles == <<"transformix_input.txt", "outputpoints.txt", "transformix.log">>

(* a transformation file as its directory part and its name: a path with no *)
(* '/' in it has no directory part                                          *)
TransformationFiles ==
    {[dirname |-> TransformDir, basename |-> "TransformParameters.FixedFANC.txt"],
     [dirname |-> "", basename |-> "TransformParameters.FixedFANC.txt"]}

PointSets == {<<<<1, 2, 3>>>>, <<<<1, 2, 3>>, <<4, 5, 6>>>>}

(* what the executable can do: write the output points and its log, fail    *)
(* and write its log only, write an output file with a line that holds no   *)
(* point, or be missing, so that subprocess.run raises                      *)
Outcomes == {"output", "no output", "garbled output", "no executable"}

NoFiles == [fn \in {} |-> <<>>]
Stale == <<"stale">>

(* open(fn, 'w') *)
written(dir, fn, content) ==
    [k \in DOMAIN dir \cup {fn} |-> IF k = fn THEN content ELSE dir[k]]

left_in_place(dir, fn) == dir

(* os.remove(fn), a file that is not there being passed over *)
removed(dir, fn) == [k \in DOMAIN dir \ {fn} |-> dir[k]]

(* the deformation the executable computes: a shift along x stands for it *)
deformed(points) ==
    [i \in 1..Len(points) |-> <<points[i][1] + 1, points[i][2], points[i][3]>>]

(* lines 114-118: the directory after the executable has run in it *)
after_transformix(dir, points, outcome) ==
    CASE outcome = "output" ->
            written(written(dir, TempFiles[2], deformed(points)), TempFiles[3], <<"log">>)
      [] outcome = "garbled output" ->
            written(written(dir, TempFiles[2], <<"garbled">>), TempFiles[3], <<"log">>)
      [] outcome = "no output" -> written(dir, TempFiles[3], <<"log">>)
      [] outcome = "no executable" -> dir

IdleTransformix ==
    [pc |-> "idle", points |-> <<>>,
     transformation_file |-> [dirname |-> "", basename |-> ""],
     starting_dir |-> "", idx |-> 0, pending |-> "", stdout |-> <<>>,
     shown |-> <<>>, raised |-> "", returned |-> <<>>]

(* lines 96-98 *)
TransformixCall(points, transformation_file) ==
    /\ tfx.pc \in {"idle", "done"}
    /\ tfx' = [IdleTransformix EXCEPT !.pc = "existing", !.points = points,
                                      !.transformation_file = transformation_file,
                                      !.starting_dir = cwd, !.idx = 1]
    /\ cwd' = IF transformation_file.dirname # "" THEN transformation_file.dirname
              ELSE cwd
    /\ UNCHANGED <<sync_vars, volume_vars, transform_vars, files, connect_vars,
                   housekeeping_vars, warp_log>>

(* lines 100-109, one turn of the loop; `answer` is what input() returns,   *)
(* in lower case                                                            *)
TransformixExisting(answer) ==
    /\ tfx.pc = "existing"
    /\ tfx.idx <= Len(TempFiles)
    /\ \E fn \in {TempFiles[tfx.idx]} :
         IF fn \notin DOMAIN files[cwd]
         THEN /\ tfx' = [tfx EXCEPT !.idx = @ + 1]
              /\ UNCHANGED <<cwd, files>>
         ELSE IF answer # "y"
         THEN /\ tfx' = [tfx EXCEPT !.pc = "done",
                                    !.shown = Append(@, <<"Continue?", fn>>),
                                    !.raised = "FileExistsError"]
              /\ cwd' = tfx.starting_dir
              /\ UNCHANGED files
         ELSE /\ tfx' = [tfx EXCEPT !.idx = @ + 1,
                                    !.shown = Append(@, <<"Continue?", fn>>)]
              /\ files' = [files EXCEPT ![cwd] = removed(@, fn)]
              /\ UNCHANGED cwd
    /\ UNCHANGED <<sync_vars, volume_vars, transform_vars, connect_vars,
                   housekeeping_vars, warp_log>>

(* lines 112-118: the input file is written and the executable is run *)
TransformixRun(outcome) ==
    /\ tfx.pc = "existing"
    /\ tfx.idx > Len(TempFiles)
    /\ files' = [files EXCEPT ![cwd] =
                    after_transformix(written(@, TempFiles[1], tfx.points),
                                      tfx.points, outcome)]
    /\ tfx' = [tfx EXCEPT !.pc = "ran",
                          !.pending = IF outcome = "no executable"
                                      THEN "FileNotFoundError" ELSE "",
                          !.stdout = IF outcome = "no executable" THEN <<>>
                                     ELSE <<"stdout of transformix">>]
    /\ UNCHANGED <<sync_vars, volume_vars, transform_vars, cwd, connect_vars,
                   housekeeping_vars, warp_log>>

(* lines 119-127: what the try block comes to *)
transformix_result(dir, pending, stdout) ==
    IF pending # "" THEN [raised |-> pending, shown |-> <<>>, returned |-> <<>>]
    ELSE IF TempFiles[2] \notin DOMAIN dir
    THEN [raised |-> "Exception", shown |-> <<stdout>>, returned |-> <<>>]
    ELSE IF dir[TempFiles[2]] = <<"garbled">>
    THEN [raised |-> "IndexError", shown |-> <<>>, returned |-> <<>>]
    ELSE [raised |-> "", shown |-> <<>>, returned |-> <<dir[TempFiles[2]]>>]

(* lines 119-137: the rest of the try block, and the finally block *)
TransformixFinish ==
    /\ tfx.pc = "ran"
    /\ \E result \in {transformix_result(files[cwd], tfx.pending, tfx.stdout)} :
         tfx' = [tfx EXCEPT !.pc = "done", !.pending = "",
                            !.shown = @ \o result.shown,
                            !.raised = result.raised,
                            !.returned = result.returned]
    /\ files' = [files EXCEPT ![cwd] =
                    removed(removed(removed(@, TempFiles[1]), TempFiles[2]),
                            TempFiles[3])]
    /\ cwd' = tfx.starting_dir
    /\ UNCHANGED <<sync_vars, volume_vars, transform_vars, connect_vars,
                   housekeeping_vars, warp_log>>

TransformixIdle ==
    /\ cwd = StartingDir
    /\ files = [d \in Dirs |-> NoFiles]
    /\ tfx = IdleTransformix

----------------------------------------------------------------------------
(* connect_to_catmaid (connections.py, lines 28-109).  A field of the       *)
(* config file is missing, null, or given with a value; `instances` are the *)
(* pymaid.CatmaidInstance objects the process has created.                  *)

Field(given, value) == [given |-> given, value |-> value]

(* what a config file can hold for a url or an account, and for a project   *)
(* id: '' and 0 are values that are given and that Python takes as false    *)
Urls == {Field("missing", ""), Field("null", ""), Field("value", ""),
         Field("value", "https://catmaid.example")}
Accounts == {Field("missing", ""), Field("null", ""), Field("value", ""),
             Field("value", "alice")}
ProjectIds == {Field("missing", 0), Field("null", 0), Field("value", 0),
               Field("value", 7)}

(* the target fields: none, all of them, or the url alone *)
TargetFields ==
    {[url |-> Field("missing", ""), account |-> Field("missing", ""),
      project_id |-> Field("missing", 0)],
     [url |-> Field("value", "https://target.example"),
      account |-> Field("value", "alice"), project_id |-> Field("value", 8)],
     [url |-> Field("value", "https://target.example"),
      account |-> Field("missing", ""), project_id |-> Field("null", 0)]}

Configs ==
    [source_catmaid_url : Urls,
     source_catmaid_account_to_use : Accounts,
     source_project_id : ProjectIds,
     target : TargetFields,
     catmaid_account_api_keys : {{}, {"alice"}}]

NoConfigs ==
    [source_catmaid_url |-> Field("missing", ""),
     source_catmaid_account_to_use |-> Field("missing", ""),
     source_project_id |-> Field("missing", 0),
     target |-> [url |-> Field("missing", ""), account |-> Field("missing", ""),
                 project_id |-> Field("missing", 0)],
     catmaid_account_api_keys |-> {}]

is_present(field, falsy) == field.given # "missing"

(* the truth value of configs.get(key, None) *)
is_set(field, falsy) == field.given = "value" /\ field.value # falsy

(* lines 70-74 *)
RequiredSourceFields ==
    <<"The following fields must appear in", "config", "and not be null:",
      "source_catmaid_url", "source_catmaid_account_to_use", "source_project_id">>

CatmaidInstance(url, account, project_id, make_global) ==
    [server |-> url.value, api_key_of |-> account.value,
     project_id |-> project_id.value, make_global |-> make_global]

IdleConnect ==
    [pc |-> "idle", configs |-> NoConfigs, raised |-> "", message |-> <<>>,
     shown |-> <<>>, returned |-> <<>>]

(* lines 29-44: the config file is read *)
ConnectCall(config_loads, configs) ==
    /\ conn.pc = "idle"
    /\ conn' = IF config_loads
               THEN [IdleConnect EXCEPT !.pc = "source", !.configs = configs]
               ELSE [IdleConnect EXCEPT !.pc = "done",
                                        !.shown = <<"ERROR: No config file found">>,
                                        !.raised = "OSError"]
    /\ UNCHANGED <<sync_vars, volume_vars, transform_vars, transformix_vars, instances,
                   housekeeping_vars, warp_log>>

(* lines 48-74; `has_access` is whether the project is among those the API  *)
(* key can see, so that print_project_name finds its title                  *)
ConnectSource(has_access) ==
    /\ conn.pc = "source"
    /\ \E c \in {conn.configs} :
         IF /\ is_set(c.source_catmaid_url, "")
            /\ is_set(c.source_catmaid_account_to_use, "")
            /\ is_set(c.source_project_id, 0)
         THEN IF c.source_catmaid_account_to_use.value \notin c.catmaid_account_api_keys
              THEN /\ conn' = [conn EXCEPT !.pc = "done", !.raised = "KeyError"]
                   /\ UNCHANGED instances
              ELSE /\ instances' =
                        Append(instances,
                               CatmaidInstance(c.source_catmaid_url,
                                               c.source_catmaid_account_to_use,
                                               c.source_project_id, TRUE))
                   /\ conn' =
                        IF has_access
                        THEN [conn EXCEPT !.pc = "target",
                                          !.shown = Append(@, "Source project")]
                        ELSE [conn EXCEPT !.pc = "done", !.raised = "Exception",
                                          !.message = <<"The API key provided in",
                                                        "config",
                                                        "does not appear to have access">>]
         ELSE /\ conn' = [conn EXCEPT !.pc = "done", !.raised = "ValueError",
                                      !.message = RequiredSourceFields]
              /\ UNCHANGED instances
    /\ UNCHANGED <<sync_vars, volume_vars, transform_vars, transformix_vars,
                   housekeeping_vars, warp_log>>

(* lines 81-109 *)
ConnectTarget(has_access) ==
    /\ conn.pc = "target"
    /\ \E t \in {conn.configs.target} :
         IF is_set(t.url, "") /\ is_set(t.account, "") /\ is_set(t.project_id, 0)
         THEN IF t.account.value \notin conn.configs.catmaid_account_api_keys
              THEN /\ conn' = [conn EXCEPT !.pc = "done", !.raised = "KeyError"]
                   /\ UNCHANGED instances
              ELSE /\ instances' =
                        Append(instances,
                               CatmaidInstance(t.url, t.account, t.project_id, FALSE))
                   /\ conn' =
                        IF has_access
                        THEN [conn EXCEPT !.pc = "done",
                                          !.shown = Append(@, "Target project"),
                                          !.returned = instances']
                        ELSE [conn EXCEPT !.pc = "done", !.raised = "IndexError"]
         ELSE /\ conn' =
                   [conn EXCEPT
                      !.pc = "done",
                      !.shown = IF \/ is_set(t.url, "") \/ is_set(t.account, "")
                                   \/ is_set(t.project_id, 0)
                                THEN Append(@, "WARNING: Continuing without a target project")
                                ELSE @,
                      !.returned = instances]
              /\ UNCHANGED instances
    /\ UNCHANGED <<sync_vars, volume_vars, transform_vars, transformix_vars,
                   housekeeping_vars, warp_log>>

ConnectIdle ==
    /\ conn = IdleConnect
    /\ instances = <<>>

----------------------------------------------------------------------------
(* warp_points_FANC_to_template and warp_points_template_to_FANC            *)
(* (coordinate_transforms/warp_points_between_FANC_and_template.py).        *)
(* A float is a fraction [n, d] in lowest terms, d > 0, so that the         *)
(* arithmetic of the two functions is done as it is written.  An array is   *)
(* [ndim, data]: data is the point of a 1-D array, and the sequence of the  *)
(* rows of a 2-D array.                                                     *)

RECURSIVE GCD(_, _)
GCD(a, b) == IF b = 0 THEN a ELSE GCD(b, a % b)

Abs(a) == IF a < 0 THEN -a ELSE a

Rat(n, d) ==
    LET g == GCD(Abs(n), Abs(d))
        sign == IF d < 0 THEN -1 ELSE 1
    IN  [n |-> sign * (n \div g), d |-> sign * (d \div g)]

Plus(a, b) ==
    LET g == GCD(a.d, b.d)
    IN  Rat(a.n * (b.d \div g) + b.n * (a.d \div g), (a.d \div g) * b.d)

Minus(a, b) == Plus(a, [n |-> -b.n, d |-> b.d])

Times(a, b) ==
    LET x == Rat(a.n, b.d)
        y == Rat(b.n, a.d)
    IN  [n |-> x.n * y.n, d |-> x.d * y.d]

Over(a, b) == Times(a, Rat(b.d, b.n))
Less(a, b) == a.n * b.d < b.n * a.d

(* lines 13-14 *)
template_plane_of_symmetry_x_microns == Times(Rat(329, 1), Rat(400, 1000))

(* an operation of numpy on every row: row (op) triple *)
rows_with(rows, op(_, _), triple) ==
    [i \in 1..Len(rows) |-> [k \in 1..3 |-> op(rows[i][k], triple[k])]]

scaled(rows, factor) == rows_with(rows, Times, <<factor, factor, factor>>)

(* points[:, k] = c - points[:, k] *)
mirrored(rows, k, c) ==
    [i \in 1..Len(rows) |-> [j \in 1..3 |-> IF j = k THEN Minus(c, rows[i][j])
                                             ELSE rows[i][j]]]

(* (points < 1000).all() *)
appear_in_microns(rows) ==
    \A i \in 1..Len(rows) : \A k \in 1..3 : Less(rows[i][k], Rat(1000, 1))

lower(resp) == IF resp = "Y" THEN "y" ELSE IF resp = "N" THEN "n" ELSE resp

(* lines 26-30 and 62-66: the question about the units, and its answer *)
units_after_prompt(rows, input_units, resp) ==
    IF input_units = "nm" /\ appear_in_microns(rows) /\ lower(resp) = "y"
    THEN "microns" ELSE input_units

(* (1.24, 1.24, 2.1) vox at (430, 430, 450) nm/vox *)
FANCOffset == <<Rat(5332, 10), Rat(5332, 10), Rat(945, 1)>>
FANCVoxel == <<Rat(430, 1), Rat(430, 1), Rat(450, 1)>>
TemplateVoxel == <<Rat(300, 1), Rat(300, 1), Rat(400, 1)>>

(* transformix(points, transformation_file) when the executable writes its  *)
(* output: the deformation of the transformation file, for which a shift    *)
(* along x stands, forwards for FixedFANC and backwards for FixedTemplate    *)
transformed_points(rows, transformation_file) ==
    rows_with(rows, Plus,
              <<IF transformation_file = "TransformParameters.FixedFANC.txt"
                THEN Rat(1, 1) ELSE Rat(-1, 1), Rat(0, 1), Rat(0, 1)>>)

(* lines 26-51: the function for the rows of a 2-D array *)
FANC_to_template(rows, input_units, output_units, reflect, resp) ==
    LET units == units_after_prompt(rows, input_units, resp)
        in_nm == IF units \in {"um", "microns"} THEN scaled(rows, Rat(1000, 1))
                 ELSE rows
        in_template ==
            rows_with(rows_with(rows_with(in_nm, Minus, FANCOffset), Over, FANCVoxel),
                      Times, TemplateVoxel)
        flipped == mirrored(in_template, 3, Rat(435 * 400, 1))
        warped == transformed_points(scaled(flipped, Rat(1, 1000)),
                                     "TransformParameters.FixedFANC.txt")
        reflected == IF ~reflect
                     THEN mirrored(warped, 1,
                                   Times(template_plane_of_symmetry_x_microns, Rat(2, 1)))
                     ELSE warped
    IN  IF output_units = "nm" THEN scaled(reflected, Rat(1000, 1)) ELSE reflected

(* lines 16-51.  A 1-D array is handed on as a one-row array with the       *)
(* units, and the first row of the result is returned.                      *)
warp_points_FANC_to_template(points, input_units, output_units, reflect, resp) ==
    IF Len(points.data) = 0 THEN points
    ELSE IF points.ndim = 1
    THEN [ndim |-> 1,
          data |-> FANC_to_template(<<points.data>>, input_units, output_units,
                                    FALSE, resp)[1]]
    ELSE [ndim |-> 2,
          data |-> FANC_to_template(points.data, input_units, output_units,
                                    reflect, resp)]

(* lines 62-86: the function for the rows of a 2-D array *)
template_to_FANC(rows, input_units, output_units, reflect, resp) ==
    LET units == units_after_prompt(rows, input_units, resp)
        in_microns == IF units = "nm" THEN scaled(rows, Rat(1, 1000)) ELSE rows
        reflected == IF ~reflect
                     THEN mirrored(in_microns, 1,
                                   Times(template_plane_of_symmetry_x_microns, Rat(2, 1)))
                     ELSE in_microns
        warped == transformed_points(reflected,
                                     "TransformParameters.FixedTemplate.Bspline.txt")
        flipped == mirrored(scaled(warped, Rat(1000, 1)), 3, Rat(435 * 400, 1))
        in_FANC ==
            rows_with(rows_with(rows_with(flipped, Over, TemplateVoxel), Times, FANCVoxel),
                      Plus, FANCOffset)
    IN  IF output_units \in {"um", "microns"} THEN scaled(in_FANC, Rat(1, 1000))
        ELSE in_FANC

(* lines 54-86 *)
warp_points_template_to_FANC(points, input_units, output_units, reflect, resp) ==
    IF points.ndim = 1
    THEN [ndim |-> 1,
          data |-> template_to_FANC(<<points.data>>, input_units, output_units,
                                    FALSE, resp)[1]]
    ELSE [ndim |-> 2,
          data |-> template_to_FANC(points.data, input_units, output_units,
                                    reflect, resp)]

(* The point and the keyword arguments the functions are called with, and   *)
(* what each returned for the point as a 1-D array (returned[...][1]) and   *)
(* as a one-row 2-D array (returned[...][2]).                               *)
WarpFunctions == {"warp_points_FANC_to_template", "warp_points_template_to_FANC"}

IdleWarp ==
    [point |-> <<>>, input_units |-> "", output_units |-> "", reflect |-> FALSE,
     resp |-> "",
     returned |-> [f \in WarpFunctions |-> [ndim \in 1..2 |-> <<>>]]]

as_array(point, ndim) ==
    IF ndim = 1 THEN [ndim |-> 1, data |-> point] ELSE [ndim |-> 2, data |-> <<point>>]

WarpFANCToTemplate(ndim) ==
    /\ warp_log.point # <<>>
    /\ warp_log' =
         [warp_log EXCEPT !.returned["warp_points_FANC_to_template"][ndim] =
            <<warp_points_FANC_to_template(as_array(warp_log.point, ndim),
                                           warp_log.input_units, warp_log.output_units,
                                           warp_log.reflect, warp_log.resp)>>]
    /\ UNCHANGED <<sync_vars, volume_vars, transform_vars, transformix_vars,
                   connect_vars, housekeeping_vars>>

WarpTemplateToFANC(ndim) ==
    /\ warp_log.point # <<>>
    /\ warp_log' =
         [warp_log EXCEPT !.returned["warp_points_template_to_FANC"][ndim] =
            <<warp_points_template_to_FANC(as_array(warp_log.point, ndim),
                                           warp_log.input_units, warp_log.output_units,
                                           warp_log.reflect, warp_log.resp)>>]
    /\ UNCHANGED <<sync_vars, volume_vars, transform_vars, transformix_vars,
                   connect_vars, housekeeping_vars>>

----------------------------------------------------------------------------
(* delete_unlinked_connectors (housekeeping.py).  The connectors of a       *)
(* project are as in connector_type; the scan is find_unlinked_connectors,  *)
(* which housekeeping.py defines as the uploader's module does.             *)

IdleHousekeeping ==
    [calls |-> 0, remote_instance |-> "", connector_ids |-> {}, user_input |-> <<>>,
     delete_nodes |-> <<>>]

delete_unlinked_connectors_unprompted(connectors, user_input) ==
    SetToSeq(find_unlinked_connectors(connectors))

(* lines 33-44: the connectors delete_nodes is called for, in order *)
delete_unlinked_connectors(connectors, user_input) ==
    IF Cardinality(find_unlinked_connectors(connectors)) = 0 THEN <<>>
    ELSE IF user_input \notin {"Y", "y"} THEN <<>>
    ELSE SetToSeq(find_unlinked_connectors(connectors))

(* pymaid.delete_nodes(i, 'CONNECTOR', no_prompt=no_prompt): unless         *)
(* no_prompt, pymaid asks before it deletes; confirmed are the connectors   *)
(* for which its question is answered with yes.                             *)
delete_nodes(connectors, ids, no_prompt, confirmed) ==
    [c \in ConnectorIds |->
        IF c \in Range(ids) /\ (no_prompt \/ c \in confirmed) THEN "absent"
        ELSE connectors[c]]

(* lines 25-44.  remote_instance is None, 'source' or 'target'.             *)
DeleteUnlinkedConnectors(remote_instance, no_prompt, user_input, confirmed) ==
    /\ housekeeping.calls < MaxCalls
    /\ LET chosen == IF remote_instance \in {"None", "source"} THEN "source"
                      ELSE "target"
           connectors == IF chosen = "source" THEN source_connector_type
                         ELSE connector_type
           connector_ids == find_unlinked_connectors(connectors)
           ids == delete_unlinked_connectors(connectors, user_input)
           after == delete_nodes(connectors, ids, no_prompt, confirmed)
       IN  /\ housekeeping' =
                [calls |-> housekeeping.calls + 1,
                 remote_instance |-> chosen,
                 connector_ids |-> connector_ids,
                 user_input |-> IF connector_ids = {} THEN <<>> ELSE <<user_input>>,
                 delete_nodes |-> ids]
           /\ source_connector_type' = IF chosen = "source" THEN after
                                        ELSE source_connector_type
           /\ connector_type' = IF chosen = "target" THEN after ELSE connector_type
    /\ UNCHANGED <<source_project, target_project, tgt, annotation_list, pc, call,
                   last, push, last_push, init_unique, calls, ret,
                   volume_vars, transform_vars, transformix_vars, connect_vars, warp_log>>

HousekeepingIdle ==
    /\ source_connector_type = [c \in ConnectorIds |-> "absent"]
    /\ housekeeping = IdleHousekeeping

WarpIdle == warp_log = IdleWarp

IoIdle == TransformixIdle /\ ConnectIdle /\ HousekeepingIdle /\ WarpIdle

----------------------------------------------------------------------------
(* The uploader and the push at rest *)
SyncIdle ==
    /\ source_project = InitialSource
    /\ target_project = InitialTarget
    /\ tgt = [s \in TargetSkids |-> NoNeuron]
    /\ annotation_list = <<>>
    /\ pc = "idle"
    /\ call = IdleCall
    /\ last = NoEvent
    /\ push = IdlePush
    /\ last_push = NoPushEvent
    /\ init_unique = TRUE
    /\ calls = 0
    /\ connector_type = [c \in ConnectorIds |-> "absent"]
    /\ ret = NoReturn

----------------------------------------------------------------------------
(* The neurons the transforms are called for *)

with_geometry(n, nodes, connectors) ==
    [skeleton_id |-> n.skeleton_id, neuron_name |-> n.neuron_name,
     annotations |-> n.annotations, nodes |-> nodes, connectors |-> connectors]

(* a soma, a primary neurite of three nodes and a thin branch off it *)
MotorNeuron ==
    with_geometry(get_neuron(42),
        [n \in 1..5 |-> IF n = 1 THEN Node(NoParent, 1, 0, 1000)
                        ELSE IF n = 5 THEN Node(3, 3, 1, 100)
                        ELSE Node(n - 1, n, 0, PRIMARY_NEURITE_RADIUS)],
        [c \in 1..2 |-> [node_id |-> c + 3, x |-> c + 3, y |-> 0, z |-> 0]])

(* a thin node between the soma and a thick one *)
ThinNeckNeuron ==
    with_geometry(get_neuron(43),
        [n \in 1..3 |-> IF n = 1 THEN Node(NoParent, 1, 0, 1000)
                        ELSE IF n = 2 THEN Node(1, 2, 0, 100)
                        ELSE Node(2, 3, 0, 600)],
        [c \in 1..1 |-> [node_id |-> 3, x |-> 3, y |-> 0, z |-> 0]])

SourceNeurons == {MotorNeuron, ThinNeckNeuron}

Translations == {<<1, 0, 0>>, <<0, 2, 3>>, <<1, 1>>}
Units == {"nm", "pixel", "um"}
Radii == {PRIMARY_NEURITE_RADIUS, 600}

NoTransformLog(n) == [original |-> n, earlier |-> NoTransform, last |-> NoTransform]

TransformIdle ==
    /\ src_neuron = MotorNeuron
    /\ transform_log = NoTransformLog(MotorNeuron)

VolumeIdle ==
    /\ volumes = cache_put(NoVolumes, "109", [lo |-> 2, hi |-> 3])
    /\ volume_log = NoVolumeLog

(* The source project holds a neuron as it was traced, or one that an       *)
(* earlier call returned and that was uploaded to it: a translated one, or  *)
(* a radius-pruned one.                                                     *)
EarlierResults(n) ==
    {[entry |-> NoTransform, result |-> Returns(n)]}
    \cup {[entry |-> [NoTransform EXCEPT !.op = "translate", !.translation = t,
                                         !.unit = u, !.unit_is_literal = TRUE],
           result |-> get_translated_neurons_by_skid(n, t, u, PixelSize, TRUE)] :
            t \in Translations, u \in {"nm", "pixel"}}
    \cup {[entry |-> [NoTransform EXCEPT !.op = "radius_prune", !.radius_to_keep = r,
                                         !.keep_larger_radii = TRUE],
           result |-> get_radius_pruned_neurons_by_skid(n, r, TRUE)] : r \in Radii}

TransformInit ==
    /\ SyncIdle
    /\ VolumeIdle
    /\ IoIdle
    /\ \E n \in SourceNeurons :
        \E e \in EarlierResults(n) :
            /\ e.result.raised = ""
            /\ src_neuron = e.result.neuron
            /\ transform_log = [original |-> n, earlier |-> e.entry, last |-> NoTransform]

TransformNext ==
    \/ \E translation \in Translations, unit \in Units, unit_is_literal \in BOOLEAN :
          GetTranslated(translation, unit, unit_is_literal)
    \/ GetAffineTransformed
    \/ \E left_right_flip \in BOOLEAN, include_connectors \in BOOLEAN :
          GetElasticTransformed(left_right_flip, include_connectors)
    \/ \E radius_to_keep \in Radii, keep_larger_radii \in BOOLEAN :
          GetRadiusPruned(radius_to_keep, keep_larger_radii)
    \/ \E radius_to_keep \in Radii, keep_larger_radii \in BOOLEAN :
          RadiusPruneBySkid(radius_to_keep, keep_larger_radii)
    \/ \E mode \in {"fele", "strict"} :
          GetVolumePruned("109", mode, FALSE, [lo |-> 2, hi |-> 3])

TransformSpec == TransformInit /\ [][TransformNext]_vars

(* A process that prunes by volume, from an empty cache *)
VolumeInit ==
    /\ SyncIdle
    /\ IoIdle
    /\ TransformIdle
    /\ volumes = NoVolumes
    /\ volume_log = NoVolumeLog

VolumeNext ==
    \E volume_id \in VolumeIds, mode \in {"fele", "strict"}, fetch_fails \in BOOLEAN,
       fetched \in Geometries :
        GetVolumePruned(volume_id, mode, fetch_fails, fetched)

VolumeSpec == VolumeInit /\ [][VolumeNext]_vars

(* Pruning by volume, for every tree of MaxNodes nodes whose nodes are      *)
(* numbered from the root outwards and lie one after the other along x,     *)
(* each but the soma thick (the radius of the primary neurite) or thin      *)
FeleNeurons ==
    {with_geometry(get_neuron(42),
        [n \in 1..MaxNodes |-> IF n = 1 THEN Node(NoParent, 1, 0, 1000)
                               ELSE Node(parent_id[n], n, 0, radius[n])],
        [c \in 1..1 |-> [node_id |-> MaxNodes, x |-> MaxNodes, y |-> 0, z |-> 0]]) :
        parent_id \in {p \in [2..MaxNodes -> 1..(MaxNodes - 1)] :
                        \A n \in 2..MaxNodes : p[n] < n},
        radius \in [2..MaxNodes -> {PRIMARY_NEURITE_RADIUS, 100}]}

FeleInit ==
    /\ SyncIdle
    /\ IoIdle
    /\ src_neuron \in FeleNeurons
    /\ transform_log = NoTransformLog(src_neuron)
    /\ volumes = NoVolumes
    /\ volume_log = NoVolumeLog

FeleNext ==
    \E mode \in {"fele", "strict"}, fetch_fails \in BOOLEAN, fetched \in Geometries :
        GetVolumePruned("109", mode, fetch_fails, fetched)

FeleSpec == FeleInit /\ [][FeleNext]_vars

(* transformix in a process that starts in StartingDir, where files of      *)
(* the names of its temporary files may have been left behind               *)
LeftBehind ==
    {[fn \in names |-> Stale] :
        names \in SUBSET {TempFiles[i] : i \in 1..Len(TempFiles)}}

TransformixInit ==
    /\ SyncIdle
    /\ VolumeIdle
    /\ TransformIdle
    /\ ConnectIdle
    /\ HousekeepingIdle
    /\ WarpIdle
    /\ cwd = StartingDir
    /\ files \in [Dirs -> LeftBehind]
    /\ tfx = IdleTransformix

TransformixNext ==
    \/ \E points \in PointSets, transformation_file \in TransformationFiles :
          TransformixCall(points, transformation_file)
    \/ \E answer \in {"y", "n", ""} : TransformixExisting(answer)
    \/ \E outcome \in Outcomes : TransformixRun(outcome)
    \/ TransformixFinish

TransformixSpec == TransformixInit /\ [][TransformixNext]_vars

(* connect_to_catmaid in a fresh process *)
ConnectInit ==
    /\ SyncIdle
    /\ VolumeIdle
    /\ TransformIdle
    /\ IoIdle

ConnectNext ==
    \/ \E config_loads \in BOOLEAN, configs \in Configs :
          ConnectCall(config_loads, configs)
    \/ \E has_access \in BOOLEAN : ConnectSource(has_access)
    \/ \E has_access \in BOOLEAN : ConnectTarget(has_access)

ConnectSpec == ConnectInit /\ [][ConnectNext]_vars

(* Both projects with connectors of every kind *)
HousekeepingInit ==
    /\ source_project = InitialSource
    /\ target_project = InitialTarget
    /\ tgt = [s \in TargetSkids |-> NoNeuron]
    /\ annotation_list = <<>>
    /\ pc = "idle"
    /\ call = IdleCall
    /\ last = NoEvent
    /\ push = IdlePush
    /\ last_push = NoPushEvent
    /\ init_unique = TRUE
    /\ calls = 0
    /\ connector_type \in [ConnectorIds -> {"absent", "null", "linked"}]
    /\ ret = NoReturn
    /\ VolumeIdle
    /\ TransformIdle
    /\ TransformixIdle
    /\ ConnectIdle
    /\ WarpIdle
    /\ source_connector_type \in [ConnectorIds -> {"absent", "null", "linked"}]
    /\ housekeeping = IdleHousekeeping

HousekeepingNext ==
    \E remote_instance \in {"None", "source", "target"}, no_prompt \in BOOLEAN,
       user_input \in Answers, confirmed \in SUBSET ConnectorIds :
        DeleteUnlinkedConnectors(remote_instance, no_prompt, user_input, confirmed)

HousekeepingSpec == HousekeepingInit /\ [][HousekeepingNext]_vars

(* points in nm, and points small enough to be taken for microns *)
WarpPoints ==
    {<<Rat(10000, 1), Rat(20000, 1), Rat(5000, 1)>>,
     <<Rat(150, 1), Rat(2005, 10), Rat(50, 1)>>,
     <<Rat(1316, 10), Rat(900, 1), Rat(2000, 1)>>}

WarpInit ==
    /\ SyncIdle
    /\ VolumeIdle
    /\ TransformIdle
    /\ TransformixIdle
    /\ ConnectIdle
    /\ HousekeepingIdle
    /\ \E point \in WarpPoints, input_units \in {"nm", "microns"},
          output_units \in {"nm", "microns"}, reflect \in BOOLEAN,
          resp \in {"y", "n"} :
            warp_log = [IdleWarp EXCEPT !.point = point,
                                        !.input_units = input_units,
                                        !.output_units = output_units,
                                        !.reflect = reflect,
                                        !.resp = resp]

WarpNext ==
    \/ \E ndim \in 1..2 : WarpFANCToTemplate(ndim)
    \/ \E ndim \in 1..2 : WarpTemplateToFANC(ndim)

WarpSpec == WarpInit /\ [][WarpNext]_vars

----------------------------------------------------------------------------
(* Initial states: the target project as earlier runs and human tracers     *)
(* left it.                                                                 *)

EditionTimes == {<<0, 0>>, <<0, 1>>, <<1, 1>>}

InitialNeurons(ops, names, times) ==
    {[exists |-> TRUE,
      neuron_name |-> IF nm = "expected"
                      THEN transformed(op, get_neuron(42)).neuron_name
                      ELSE <<"renamed">>,
      annotations |-> {linking_annotation_target(linking_relation_of(op), 42, InitialSource),
                       UpdatedAnnotation("t0")},
      edition_time |-> e] : op \in ops, nm \in names, e \in times}

Unambiguous(T) ==
    \A s1, s2 \in TargetSkids :
        \A a \in T[s1].annotations \cap T[s2].annotations :
            IsLinkingAnnotation(a) => s1 = s2

DirectOps == {"upload", "copy", "affine_plus", "volume_prune"}

(* Volume 109, the one the model's prunings use, has been pulled before.     *)
Init ==
    /\ source_project = InitialSource
    /\ target_project = InitialTarget
    /\ \E n1 \in InitialNeurons({"copy"}, {"expected", "renamed"}, EditionTimes)
                    \cup {NoNeuron},
          n2 \in InitialNeurons({"copy"}, {"expected"}, {<<0, 0>>}) \cup {NoNeuron} :
            /\ n2.exists => n1 = n2
            /\ tgt = [s \in TargetSkids |->
                        IF s = 101 THEN n1 ELSE IF s = 102 THEN n2 ELSE NoNeuron]
    /\ annotation_list = SetToSeq(UNION {tgt[s].annotations : s \in TargetSkids})
    /\ pc = "idle"
    /\ call = IdleCall
    /\ last = NoEvent
    /\ push = IdlePush
    /\ last_push = NoPushEvent
    /\ init_unique = Unambiguous(tgt)
    /\ calls = 0
    /\ connector_type = [c \in ConnectorIds |-> "absent"]
    /\ ret = NoReturn
    /\ VolumeIdle
    /\ IoIdle
    /\ TransformIdle

Next ==
    \/ \E op \in DirectOps, skids \in Batches, fake \in BOOLEAN, refuse \in BOOLEAN,
          annotate \in BOOLEAN :
            UploadCall(op, skids, fake, refuse, annotate)
    \/ UploadIteration
    \/ UploadReturn

Spec == Init /\ [][Next]_vars

(* The uploader on an empty target project that has connectors, all of     *)
(* them linked or the first of them linked to no skeleton                  *)
ConnectorInit ==
    /\ source_project = InitialSource
    /\ target_project = InitialTarget
    /\ tgt = [s \in TargetSkids |-> NoNeuron]
    /\ annotation_list = <<>>
    /\ pc = "idle"
    /\ call = IdleCall
    /\ last = NoEvent
    /\ push = IdlePush
    /\ last_push = NoPushEvent
    /\ init_unique = TRUE
    /\ calls = 0
    /\ connector_type \in {[c \in ConnectorIds |-> "linked"],
                           [c \in ConnectorIds |-> IF c = 1 THEN "null" ELSE "linked"]}
    /\ ret = NoReturn
    /\ VolumeIdle
    /\ IoIdle
    /\ TransformIdle

(* neurons are uploaded as they are or as copies, with refuse_to_update at  *)
(* its default                                                              *)
ConnectorNext ==
    \/ \E op \in {"upload", "copy"}, skids \in Batches, fake \in BOOLEAN,
          annotate \in BOOLEAN :
            UploadCall(op, skids, fake, TRUE, annotate)
    \/ UploadIteration
    \/ UploadReturn

ConnectorSpec == ConnectorInit /\ [][ConnectorNext]_vars

----------------------------------------------------------------------------
(* The push: the target project it starts from *)

TwoKeywords == <<"radius pruned", "of", "copy", "of">>

LinkedNeuron(relation, skid, project, neuron_name) ==
    [exists |-> TRUE,
     neuron_name |-> neuron_name,
     annotations |-> {linking_annotation_target(relation, skid, project),
                      UpdatedAnnotation("t0")},
     edition_time |-> <<0, 0>>]

(* An annotation no skeleton carries any more *)
OrphanAnnotation == linking_annotation_target(CopyOf, 43, InitialSource)

SameServerTarget == [server |-> "X", project_id |-> 8]

(* skeleton 101, skeleton 102 and the handle of the target project *)
PushScenarios ==
    {<<n1, NoNeuron, InitialTarget>> :
        n1 \in InitialNeurons(Ops, {"expected"}, {<<0, 0>>})}
    \cup {<<n1, NoNeuron, InitialTarget>> :
        n1 \in InitialNeurons({"copy"}, {"renamed"}, {<<0, 1>>})}
    \cup {<<n1, n1, InitialTarget>> :
        n1 \in InitialNeurons({"copy"}, {"expected"}, {<<0, 0>>})}
    \cup {<<n1, n2, InitialTarget>> :
        n1 \in InitialNeurons({"copy"}, {"expected"}, {<<0, 0>>}),
        n2 \in InitialNeurons({"translate"}, {"expected"}, {<<0, 0>>})}
    \cup {<<LinkedNeuron(TwoKeywords, 42, InitialSource, <<"A">>),
            NoNeuron, InitialTarget>>}
    \cup {<<n1, LinkedNeuron(CopyOf, 101, [server |-> "X", project_id |-> 8], <<"A">>), t>> :
        n1 \in InitialNeurons({"copy"}, {"expected"}, {<<0, 0>>}),
        t \in {InitialTarget, SameServerTarget}}
    \cup {<<[n1 EXCEPT !.annotations = @ \cup
                {linking_annotation_target(CopyOf, 102, SameServerTarget)}],
            LinkedNeuron(CopyOf, 101, SameServerTarget, <<"A">>),
            SameServerTarget>> :
        n1 \in InitialNeurons({"copy"}, {"expected"}, {<<0, 0>>})}

LinkingAnnotations(T) ==
    {a \in UNION {T[s].annotations : s \in TargetSkids} : IsLinkingAnnotation(a)}

Orders(S) == {f \in [1..Cardinality(S) -> S] : Range(f) = S}

PushInit ==
    /\ source_project = InitialSource
    /\ \E sc \in PushScenarios :
        /\ target_project = sc[3]
        /\ tgt = [s \in TargetSkids |->
                    IF s = 101 THEN sc[1] ELSE IF s = 102 THEN sc[2] ELSE NoNeuron]
    /\ \E order \in Orders(LinkingAnnotations(tgt)) :
        annotation_list = order \o <<OrphanAnnotation, UpdatedAnnotation("t0")>>
    /\ pc = "idle"
    /\ call = IdleCall
    /\ last = NoEvent
    /\ push = IdlePush
    /\ last_push = NoPushEvent
    /\ init_unique = Unambiguous(tgt)
    /\ calls = 0
    /\ connector_type = [c \in ConnectorIds |-> "absent"]
    /\ ret = NoReturn
    /\ VolumeIdle
    /\ IoIdle
    /\ TransformIdle

PushNext ==
    \/ \E skids \in PushBatches, recurse \in BOOLEAN, fake \in BOOLEAN,
          translation \in BOOLEAN, skip_dates \in SkipDates :
            PushCall(skids, recurse, fake, translation, skip_dates)
    \/ PushPass
    \/ PushLookup
    \/ PushDispatch
    \/ PushDispatchRaises
    \/ PushPassEnd
    \/ PushReturn

PushSpec == PushInit /\ [][PushNext]_vars

(* A push that was called goes on: the interpreter runs the loops of lines  *)
(* 95-133 statement after statement, input() is answered and the remote     *)
(* calls return.  The body of the keyword loop, lines 116-129, is either    *)
(* PushDispatch or PushDispatchRaises.                                      *)
PushFairSpec ==
    /\ PushSpec
    /\ WF_vars(PushPass)
    /\ WF_vars(PushLookup)
    /\ WF_vars(PushPassEnd)
    /\ WF_vars(PushReturn)
    /\ \/ []<>~(pc = "push" /\ push.phase = "keys")
       \/ []<><<PushDispatch \/ PushDispatchRaises>>_vars

----------------------------------------------------------------------------
(* Properties of upload_or_update_neurons.  `last` is the iteration that    *)
(* has just run; `call` still holds the arguments of its call.              *)

Iterated == pc = "upload" /\ last.skid # 0

NewReport == <<[kind |-> "new", skid |-> 0]>>
UpdateReport(s) == <<[kind |-> "update", skid |-> s]>>
MultipleReport == <<[kind |-> "multiple", skid |-> 0]>>

(* C1, as claimed: in a dry run no upload_neuron and no add_annotations is  *)
(* issued, and every neuron is reported either as a new skeleton or as an   *)
(* update of its linked skeleton.                                           *)
C1_DryRunReportsCreateOrUpdate ==
    Iterated /\ last.fake =>
        /\ last.uploads = <<>>
        /\ last.annotated = <<>>
        /\ last.report \in {NewReport} \cup {UpdateReport(s) : s \in last.linked}

(* C1, amended: in a dry run no upload_neuron and no add_annotations is     *)
(* issued; a neuron with no linked target neuron is reported as a new       *)
(* skeleton, one with exactly one as an update of that skeleton id, and one *)
(* with more than one as ambiguous and skipped.                             *)
C1_DryRun ==
    Iterated /\ last.fake =>
        /\ last.uploads = <<>>
        /\ last.annotated = <<>>
        /\ Cardinality(last.linked) = 0 => last.report = NewReport
        /\ Cardinality(last.linked) = 1 =>
                \E s \in last.linked : last.report = UpdateReport(s)
        /\ Cardinality(last.linked) > 1 => last.report = MultipleReport

C1_Witness ==
    /\ Iterated /\ last.fake /\ call.annotate_source_neuron
    /\ ~call.refuse_to_update
    /\ last.report = UpdateReport(101)
    /\ last.prompts = <<>>

(* C2: a source neuron whose linking annotation is carried by more than one *)
(* target neuron is reported as ambiguous, is not prompted for and is not   *)
(* uploaded, dry run or not.                                                *)
C2_AmbiguousIsSkipped ==
    Iterated /\ Cardinality(last.linked) > 1 =>
        /\ last.report = MultipleReport
        /\ last.prompts = <<>>
        /\ last.uploads = <<>>

(* C3: if every linking annotation was carried by at most one target neuron *)
(* at the start, it is so after any sequence of uploader calls, whatever    *)
(* the neurons, the linking relation, the fake flag and the answers.        *)
C3_LinksStayUnambiguous ==
    init_unique => Unambiguous(tgt)

(* C4: with no linked target neuron the upload is a new skeleton (no id     *)
(* forced) whose annotations hold the linking annotation, exactly one       *)
(* 'UPDATED FROM LINKED NEURON' stamp, that of the call's start time, and   *)
(* none of the source neuron's earlier 'LINKED NEURON' annotations.         *)
C4_NewUpload ==
    Iterated /\ last.linked = {} =>
        /\ ~last.fake => Len(last.uploads) = 1
        /\ \A i \in 1..Len(last.uploads) :
            LET u == last.uploads[i] IN
            /\ ~u.force_id /\ u.skeleton_id = 0 /\ u.neuron_id = 0
            /\ last.linking_annotation \in u.annotations
            /\ last.linking_annotation =
                 linking_annotation_target(call.linking_relation, last.skid, source_project)
            /\ {a \in u.annotations : IsUpdatedAnnotation(a)}
                 = {UpdatedAnnotation(call.start_time)}
            /\ \A a \in last.source_annotations :
                 Contains(a, <<"LINKED NEURON">>) => a \notin u.annotations

C4_Witness ==
    /\ Iterated /\ last.linked = {} /\ last.uploads # <<>>
    /\ \E a \in last.source_annotations : IsLinkingAnnotation(a)
    /\ \E a \in last.source_annotations : IsUpdatedAnnotation(a)

(* C5: a linked neuron any of whose treenodes was edited after its creation *)
(* is overwritten only after the operator confirmed with 'y' or 'Y'.        *)
EditedAfterCreation(neuron) ==
    \E i \in 1..Len(neuron.edition_time) : neuron.edition_time[i] > 0

C5_EditedNeedsConfirmation ==
    Iterated /\ Cardinality(last.linked) = 1
             /\ EditedAfterCreation(last.linked_neuron[1])
             /\ last.uploads # <<>> =>
        \E i \in 1..Len(last.prompts) :
            last.prompts[i].kind = "edited" /\ last.prompts[i].answer \in {"y", "Y"}

(* C6: when the one linked neuron's name differs from the source neuron's,  *)
(* the operator is prompted; any answer but 'y' or 'Y' leaves the neuron    *)
(* neither uploaded nor renamed, and the loop goes on to the next neuron.   *)
C6_NameMismatch ==
    Iterated /\ Cardinality(last.linked) = 1
             /\ last.linked_neuron[1].neuron_name # last.neuron_name =>
        /\ Len(last.prompts) >= 1 /\ last.prompts[1].kind = "name"
        /\ last.prompts[1].answer \notin {"y", "Y"} =>
            /\ last.uploads = <<>>
            /\ \A s \in last.linked : tgt[s] = last.linked_neuron[1]
            /\ call.idx = last.idx + 1

C6_Witness ==
    /\ Iterated /\ Cardinality(last.linked) = 1 /\ ~last.fake
    /\ ~call.refuse_to_update
    /\ last.linked_neuron[1].neuron_name # last.neuron_name
    /\ last.prompts = <<[kind |-> "name", answer |-> ""]>>
    /\ call.idx <= Len(call.neurons)

----------------------------------------------------------------------------
(* Properties of push_all_updates_by_skid.  `last_push` is what the push    *)
(* has done for the annotation it is at, `last` what the uploader did in    *)
(* the last transform called for it.                                        *)

AtAnnotation == last_push.source_skid # 0

(* C7: an annotation no target skeleton carries is skipped with no prompt   *)
(* and no transform call; one that more than one carries is prompted for    *)
(* and neither transformed nor uploaded; a transform is dispatched only     *)
(* when exactly one target skeleton carries the annotation.                 *)
C7_LookupOutcomes ==
    AtAnnotation =>
        /\ Cardinality(last_push.target_skids) = 0 =>
            /\ ~last_push.prompted
            /\ last_push.dispatched = <<>> /\ push.pending = <<>>
        /\ Cardinality(last_push.target_skids) > 1 =>
            /\ last_push.prompted
            /\ last_push.dispatched = <<>> /\ push.pending = <<>>
            /\ last = NoEvent
        /\ last_push.dispatched # <<>> \/ push.pending # <<>> =>
            /\ Cardinality(last_push.target_skids) = 1
            /\ ~last_push.prompted

(* the prompt for an annotation two skeletons carry, after an annotation of *)
(* the same pass that no skeleton carries was passed over                   *)
C7_Witness ==
    /\ pc = "push" /\ AtAnnotation
    /\ Cardinality(last_push.target_skids) = 2
    /\ last_push.prompted
    /\ push.pos = 3
    /\ get_skids_by_annotation(tgt, push.target_annots[1].target_annot) = {}

CopyLink42 == linking_annotation_target(CopyOf, 42, InitialSource)
TranslationLink42 == linking_annotation_target(TranslationOf, 42, InitialSource)

C8_Given ==
    /\ {CopyLink42, TranslationLink42} \subseteq Range(annotation_list)
    /\ AtAnnotation
    /\ last_push.source_skid = 42
    /\ last_push.target_annot \in {CopyLink42, TranslationLink42}
    /\ push.pending = <<>>

C9_FirstKeywordWins ==
    Len(last_push.dispatched) <= 1

(* C10: a target neuron linked by the relation of any of copy, translate,   *)
(* affine, elastic warp, volume prune and radius prune has the transform of *)
(* that relation called when its source skeleton is pushed.                 *)
TransformKinds ==
    {"copy", "translate", "affine", "elastic", "volume_prune", "radius_prune"}

C10_EveryKindIsDispatched ==
    \A op \in TransformKinds :
        /\ AtAnnotation
        /\ push.pending = <<>>
        /\ last_push.target_annot =
             add_escapes(linking_annotation_target(linking_relation_of(op),
                                                   last_push.source_skid, InitialSource))
        /\ Cardinality(last_push.target_skids) = 1
        => last_push.dispatched \o last_push.skipped = <<op>>

(* C11: when the push returns, the source handle's project id is the one it *)
(* had when the push was called, whatever recurse, fake and the annotation  *)
(* list; the target handle is never changed.                                *)
C11_ProjectIdsRestored ==
    [][/\ target_project' = target_project
       /\ pc = "idle" /\ pc' = "push" =>
            push'.original_source_project_id = source_project.project_id
       /\ pc = "push" /\ last_push'.returned =>
            source_project'.project_id = push.original_source_project_id]_vars

(* a push that recursed into the target project and uploaded has returned *)
C11_Witness ==
    /\ pc = "idle" /\ last_push.returned
    /\ last_push.passes >= 2
    /\ source_project = InitialSource
    /\ \E s \in TargetSkids : UpdatedAnnotation("t1") \in tgt[s].annotations

(* C12: the push reaches a fixed point and returns, for every skid list and *)
(* every set of linking annotations in the target project, recurse=True     *)
(* with fake=False included: a push that was called comes to its end.       *)
C12_PushReturns ==
    (pc = "push") ~> (pc = "idle")

(* C13: with fake=False the uploader searches the target project's         *)
(* unlinked connectors again after the whole batch and warns exactly when   *)
(* some connector is unlinked then that was not unlinked when the call      *)
(* began; the warning does not fail the call, which returns the server      *)
(* responses of all its uploads.  With fake=True nothing is searched after  *)
(* the batch.                                                               *)
C13_RescanWarns ==
    [][pc = "upload" /\ pc' = "idle" =>
        /\ ret'.returned
        /\ ret'.server_responses = call.server_responses
        /\ ret'.rescanned = ~call.fake
        /\ ret'.warned_of # {} <=>
              /\ ~call.fake
              /\ \E c \in ConnectorIds :
                    /\ connector_type[c] = "null"
                    /\ c \notin call.unlinked_connectors_start]_vars

(* a call that uploaded two neurons has warned and returned both responses, *)
(* with no more connectors unlinked than before                             *)
C13_Witness ==
    /\ pc = "idle"
    /\ ret.returned /\ ret.rescanned
    /\ ret.warned_of = {2}
    /\ find_unlinked_connectors(connector_type) = {2}
    /\ Len(ret.server_responses) = 2

(* C14: in one process the geometry of a volume id is pulled from the       *)
(* remote at most once; a call with an id that is cached pulls nothing and  *)
(* uses the entry; no entry is removed or replaced; a pull that fails       *)
(* raises and leaves the cache without an entry for the id.                 *)
C14_VolumeCache ==
    [][\A volume_id \in VolumeIds :
        /\ volume_log'.pulled[volume_id] <= 1
        /\ volume_id \in DOMAIN volumes =>
              /\ volume_id \in DOMAIN volumes'
              /\ volumes'[volume_id] = volumes[volume_id]
              /\ volume_log'.pulled[volume_id] = volume_log.pulled[volume_id]
              /\ volume_log'.last.volume_id = volume_id =>
                    volume_log'.last.source = "cache"
        /\ /\ volume_id \notin DOMAIN volumes
           /\ volume_log'.last.volume_id = volume_id
           /\ volume_id \notin DOMAIN volumes'
           => /\ volume_log'.last.raised = "get_volume"
              /\ volume_log'.pulled[volume_id] = 0]_vars

(* both volumes were pulled, each once, with different geometries, and the  *)
(* last call pruned by the entry it found in the cache                      *)
C14_Witness ==
    /\ volume_log.pulled = [volume_id \in VolumeIds |-> 1]
    /\ volume_log.last.volume_id = "110"
    /\ volume_log.last.source = "cache"
    /\ volume_log.last.raised = ""
    /\ volumes["109"] = [lo |-> 2, hi |-> 3]
    /\ volumes["110"] = [lo |-> 3, hi |-> 5]

(* What the last transform call returned, and for which neuron *)
Transformed ==
    IF transform_log.last.op # "" /\ transform_log.last.raised = ""
    THEN {[op |-> transform_log.last.op, returned |-> transform_log.last.returned[1]]}
    ELSE {}

VolumePruned ==
    IF volume_log.last.mode # "" /\ volume_log.last.raised = ""
    THEN {[op |-> "volume_prune", returned |-> volume_log.last.returned[1]]}
    ELSE {}

IsProperPrefix(s, t) == Len(s) < Len(t) /\ SubSeq(t, 1, Len(s)) = s

(* C15: every transform (translation, affine transform, elastic warp,       *)
(* volume pruning, radius pruning) returns neurons whose name is the source *)
(* neuron's name with a suffix of the transform appended, and whose         *)
(* annotations are the source neuron's with an annotation that records the  *)
(* transform added.                                                         *)
C15_SuffixAndAuditAnnotation ==
    \A t \in Transformed \cup VolumePruned :
        /\ IsProperPrefix(src_neuron.neuron_name, t.returned.neuron_name)
        /\ src_neuron.annotations \subseteq t.returned.annotations
        /\ t.returned.annotations # src_neuron.annotations

(* the vector the claim says is applied *)
VectorFor(translation, unit) ==
    IF unit = "pixel"
    THEN <<translation[1] * PixelSize[1], translation[2] * PixelSize[2],
           translation[3] * PixelSize[3]>>
    ELSE translation

Sum(t1, t2) == <<t1[1] + t2[1], t1[2] + t2[2], t1[3] + t2[3]>>

(* C16: translating the nodes and the connectors by t1 and then by t2 gives *)
(* the coordinates that translating once by t1+t2 gives, where with         *)
(* unit='pixel' the vector of a translation is the given one multiplied     *)
(* element by element with pixel_size.                                      *)
C16_TranslationsCompose ==
    /\ transform_log.earlier.op = "translate"
    /\ transform_log.last.op = "translate"
    /\ transform_log.last.raised = ""
    => \E t \in {Sum(VectorFor(transform_log.earlier.translation,
                                transform_log.earlier.unit),
                      VectorFor(transform_log.last.translation,
                                transform_log.last.unit))} :
          /\ transform_log.last.returned[1].nodes = moved(transform_log.original.nodes, t)
          /\ transform_log.last.returned[1].connectors =
                moved(transform_log.original.connectors, t)

(* the call is a radius pruning (keep radius >= R) of a neuron that a       *)
(* radius pruning with the same R returned                                  *)
PrunedTwice ==
    /\ transform_log.earlier.op = "radius_prune"
    /\ transform_log.last.op = "radius_prune"
    /\ transform_log.last.keep_larger_radii
    /\ transform_log.last.radius_to_keep = transform_log.earlier.radius_to_keep

(* C17 as stated: radius pruning is idempotent, pruning (keep radius >= R)  *)
(* a skeleton that is itself the result of radius pruning with the same R   *)
(* returns a neuron with the node set that pruning once gave.               *)
C17_RadiusPruningIdempotent ==
    PrunedTwice =>
        /\ transform_log.last.raised = ""
        /\ DOMAIN transform_log.last.returned[1].nodes = DOMAIN src_neuron.nodes

(* C17, amended: a radius pruning that returns keeps exactly the nodes of   *)
(* radius >= R, so that the same filter would keep every node of its        *)
(* result; but the operation itself refuses a neuron that radius pruning    *)
(* returned, whose name holds 'radius': it raises and returns no neuron.    *)
C17_PrunedOnceAndRefusedTwice ==
    /\ (transform_log.earlier.op = "radius_prune" /\ transform_log.last.op = "radius_prune")
         => (transform_log.last.raised = "Exception" /\ transform_log.last.returned = <<>>)
    /\ (/\ transform_log.last.op = "radius_prune"
        /\ transform_log.last.keep_larger_radii
        /\ transform_log.last.raised = "")
         => \E kept \in {DOMAIN transform_log.last.returned[1].nodes} :
               /\ kept = {n \in DOMAIN src_neuron.nodes :
                            src_neuron.nodes[n].radius >= transform_log.last.radius_to_keep}
               /\ \A n \in kept :
                     transform_log.last.returned[1].nodes[n].radius
                        >= transform_log.last.radius_to_keep

(* a neuron that lost a node to radius pruning is radius-pruned again with  *)
(* the same R, and the call raises                                          *)
C17_Witness ==
    /\ PrunedTwice
    /\ DOMAIN src_neuron.nodes # DOMAIN transform_log.original.nodes
    /\ transform_log.last.raised = "Exception"

(* What the claims about 'fele' pruning speak of, for the neuron and the    *)
(* volume of the last call: the end of the primary neurite, the nodes at    *)
(* which a walk stops, and the nodes of the path between two nodes.         *)
FeleCalled ==
    /\ volume_log.last.mode = "fele"
    /\ volume_log.last.raised # "get_volume"

IsStop(n) ==
    \/ node_type(src_neuron.nodes, n) = "branch"
    \/ in_volume(src_neuron.nodes[n], volumes["109"])

(* the ancestors of the primary neurite's end e at which the walk towards   *)
(* the root may stop, and the first of them                                 *)
StopsAbove(e) == {s \in ancestors(src_neuron.nodes, e) : IsStop(s)}

FirstStopAbove(e) ==
    CHOOSE s \in StopsAbove(e) :
        \A t \in StopsAbove(e) \ {s} : t \in ancestors(src_neuron.nodes, s)

(* the node next to s on the way from s out to e *)
TowardsEnd(s, e) ==
    CHOOSE d \in children(src_neuron.nodes, s) :
        d = e \/ d \in ancestors(src_neuron.nodes, e)

(* the nodes from a out to b, both included *)
Between(a, b) ==
    {n \in DOMAIN src_neuron.nodes :
        /\ n = a \/ a \in ancestors(src_neuron.nodes, n)
        /\ n = b \/ n \in ancestors(src_neuron.nodes, b)}

(* the node at which the walk away from the root stops: the first node,     *)
(* from the root's first child outwards, that is in the volume or no slab   *)
ProximalCut ==
    CHOOSE c \in DOMAIN src_neuron.nodes :
        \E start \in children(src_neuron.nodes, first_of(roots(src_neuron.nodes))) :
            /\ \A other \in children(src_neuron.nodes, first_of(roots(src_neuron.nodes))) :
                  start <= other
            /\ Between(start, c) # {}
            /\ \/ in_volume(src_neuron.nodes[c], volumes["109"])
               \/ node_type(src_neuron.nodes, c) # "slab"
            /\ \A n \in Between(start, c) \ {c} :
                  /\ ~in_volume(src_neuron.nodes[n], volumes["109"])
                  /\ node_type(src_neuron.nodes, n) = "slab"

WorkDir ==
    IF tfx.transformation_file.dirname # "" THEN tfx.transformation_file.dirname
    ELSE tfx.starting_dir

NoTempFiles(dir) == \A i \in 1..Len(TempFiles) : TempFiles[i] \notin DOMAIN dir

TransformixExits == tfx.pc # "done" /\ tfx'.pc = "done"

(* when the executable left no output file, the call shows the captured     *)
(* output and then raises, returning no points                              *)
RaisesForNoOutput ==
    (tfx.pc = "ran" /\ tfx.pending = "" /\ TempFiles[2] \notin DOMAIN files[cwd])
        => /\ tfx'.raised = "Exception"
           /\ tfx'.returned = <<>>
           /\ tfx'.shown = Append(tfx.shown, tfx.stdout)

SourceFieldUnset(configs) ==
    \/ configs.source_catmaid_url.given \in {"missing", "null"}
    \/ configs.source_catmaid_account_to_use.given \in {"missing", "null"}
    \/ configs.source_project_id.given \in {"missing", "null"}

(* C20: connect_to_catmaid is fatal on configuration errors: when any of    *)
(* source_catmaid_url, source_catmaid_account_to_use or source_project_id   *)
(* is missing or null in the config, it raises an error that lists the      *)
(* required fields and returns no project handle, and no connection has     *)
(* been created before the error.                                           *)
C20_FatalOnConfigErrors ==
    [][(conn.pc = "source" /\ conn'.pc # "source" /\ SourceFieldUnset(conn.configs))
        => /\ conn'.pc = "done"
           /\ conn'.raised = "ValueError"
           /\ conn'.message = RequiredSourceFields
           /\ conn'.returned = <<>>
           /\ instances = <<>> /\ instances' = <<>>]_vars

(* the url and the account are given and the project id is null: the call   *)
(* has raised the error that lists the fields, with no connection made      *)
C20_Witness ==
    /\ conn.pc = "done"
    /\ conn.configs.source_catmaid_url = Field("value", "https://catmaid.example")
    /\ conn.configs.source_catmaid_account_to_use = Field("value", "alice")
    /\ conn.configs.source_project_id.given = "null"
    /\ conn.configs.catmaid_account_api_keys = {"alice"}
    /\ conn.raised = "ValueError"
    /\ conn.message = RequiredSourceFields
    /\ conn.returned = <<>>
    /\ instances = <<>>

(* C21: in a push with recurse=True and fake=False, a target skeleton is    *)
(* queued for the next pass only if the update of that target neuron was    *)
(* performed in this pass: a step that adds to new_skids is a step in which *)
(* the skeleton it adds was uploaded to, and not one in which the update    *)
(* was skipped (by skip_dates, by a refused prompt or by an upload that did *)
(* not happen).                                                             *)
C21_OnlyUpdatedAreQueued ==
    [][(pc = "push" /\ Len(push'.new_skids) > Len(push.new_skids))
        => /\ last_push'.skipped = last_push.skipped
           /\ last'.uploads # <<>>
           /\ \A i \in (Len(push.new_skids) + 1)..Len(push'.new_skids) :
                 push'.new_skids[i] = last'.uploads[1].skeleton_id]_vars

(* C22: in a push with recurse=True the recursion stays within the target   *)
(* project: in the second and every later pass the handle that the source   *)
(* neurons are read through is that of the target project, its server and   *)
(* its project id, and the linking annotation computed for a neuron read in *)
(* such a pass names the target project's id and server.                    *)
C22_RecursionWithinTarget ==
    (pc = "push" /\ push.recurse /\ push.passes >= 2)
        => /\ source_project = target_project
           /\ last.linking_annotation # <<>>
                => Contains(last.linking_annotation,
                            <<"project id", ToString(target_project.project_id),
                              "on server", target_project.server>>)

(* C23: a push only does updates: every upload it triggers is addressed,    *)
(* with the id forced, to the existing target skeleton that carries the     *)
(* matched linking annotation, and no step of a push creates a skeleton in  *)
(* the target project.                                                      *)
C23_PushOnlyUpdates ==
    [][pc = "push"
        => /\ {s \in TargetSkids : tgt'[s].exists} = {s \in TargetSkids : tgt[s].exists}
           /\ (Len(last_push'.dispatched) > Len(last_push.dispatched)
                => \A i \in 1..Len(last'.uploads) :
                      /\ last'.uploads[i].force_id
                      /\ last'.uploads[i].skeleton_id \in push.target_skids)]_vars

(* C24: when the uploader updates an existing linked neuron, the annotation *)
(* set it uploads contains every annotation the linked target neuron        *)
(* carried before the update, its linking annotation and its earlier        *)
(* 'UPDATED FROM LINKED NEURON' stamps included, and the stamp of this      *)
(* call's start time; the upload is addressed to the linked neuron's        *)
(* skeleton id and neuron id with the id forced.                            *)
C24_UpdateKeepsTargetAnnotations ==
    (Iterated /\ Cardinality(last.linked) = 1 /\ last.uploads # <<>>) =>
        LET u == last.uploads[1]
            linked_neuron == last.linked_neuron[1]
            linked_skid == CHOOSE s \in last.linked : TRUE
        IN  /\ Len(last.uploads) = 1
            /\ linked_neuron.annotations \subseteq u.annotations
            /\ UpdatedAnnotation(call.start_time) \in u.annotations
            /\ u.skeleton_id = linked_skid
            /\ u.neuron_id = get_neuron_id(linked_skid)
            /\ u.force_id

C24_Witness ==
    /\ Iterated /\ Cardinality(last.linked) = 1 /\ last.uploads # <<>>
    /\ \E a \in last.linked_neuron[1].annotations :
          IsLinkingAnnotation(a) /\ a \notin last.source_annotations
    /\ \E a \in last.linked_neuron[1].annotations :
          IsUpdatedAnnotation(a) /\ a # UpdatedAnnotation(call.start_time)

(* C25: with refuse_to_update=True the uploader never overwrites a linked   *)
(* neuron: for a source neuron with exactly one linked target neuron no     *)
(* upload is issued, whatever the prompts are answered and whatever fake    *)
(* is, and the linked neuron stays as it was; a neuron with no linked       *)
(* target neuron is still uploaded as a new skeleton when fake=False.       *)
C25_RefuseToUpdate ==
    (Iterated /\ call.refuse_to_update) =>
        /\ Cardinality(last.linked) = 1 =>
              /\ last.uploads = <<>>
              /\ \A s \in last.linked : tgt[s] = last.linked_neuron[1]
        /\ (last.linked = {} /\ ~last.fake) =>
              /\ Len(last.uploads) = 1
              /\ ~last.uploads[1].force_id

C25_Witness ==
    /\ Iterated /\ call.refuse_to_update /\ ~last.fake
    /\ Cardinality(last.linked) = 1
    /\ Len(last.prompts) = 2
    /\ \A i \in 1..Len(last.prompts) : last.prompts[i].answer \in {"y", "Y"}
    /\ last.uploads = <<>>

(* C26: radius pruning keeps only the nodes with radius equal to            *)
(* radius_to_keep when keep_larger_radii=False and the nodes with radius    *)
(* >= radius_to_keep when keep_larger_radii=True, and the option given to   *)
(* radius_prune_neurons_by_skid selects the node set that is uploaded in    *)
(* the same way as it does for get_radius_pruned_neurons_by_skid.           *)
C26_OptionSelectsNodeSet ==
    (/\ transform_log.last.op \in {"radius_prune", "radius_prune_neurons_by_skid"}
     /\ transform_log.last.raised = "")
        => DOMAIN transform_log.last.returned[1].nodes
             = IF transform_log.last.keep_larger_radii
               THEN {n \in DOMAIN src_neuron.nodes :
                        src_neuron.nodes[n].radius >= transform_log.last.radius_to_keep}
               ELSE {n \in DOMAIN src_neuron.nodes :
                        src_neuron.nodes[n].radius = transform_log.last.radius_to_keep}

(* C27: delete_unlinked_connectors deletes only connectors that the scan    *)
(* for unlinked connectors of the chosen project returned, and only after   *)
(* the operator answered the prompt with 'y' or 'Y'; with any other answer, *)
(* or when the scan found no unlinked connector, no delete call is issued   *)
(* and no connector of either project changes.                              *)
ChosenConnectors ==
    IF housekeeping'.remote_instance = "source" THEN source_connector_type
    ELSE connector_type

C27_DeletesOnlyScannedAfterYes ==
    [][housekeeping'.calls > housekeeping.calls =>
        /\ Range(housekeeping'.delete_nodes)
              \subseteq {c \in ConnectorIds : ChosenConnectors[c] = "null"}
        /\ housekeeping'.delete_nodes # <<>>
              => housekeeping'.user_input \in {<<"y">>, <<"Y">>}
        /\ (\/ housekeeping'.user_input \notin {<<"y">>, <<"Y">>}
            \/ \A c \in ConnectorIds : ChosenConnectors[c] # "null")
              => /\ housekeeping'.delete_nodes = <<>>
                 /\ UNCHANGED <<connector_type, source_connector_type>>
        /\ \A c \in ConnectorIds :
              /\ connector_type'[c] # connector_type[c]
                    => /\ housekeeping'.remote_instance = "target"
                       /\ c \in Range(housekeeping'.delete_nodes)
              /\ source_connector_type'[c] # source_connector_type[c]
                    => /\ housekeeping'.remote_instance = "source"
                       /\ c \in Range(housekeeping'.delete_nodes)]_vars

C27_Witness ==
    /\ housekeeping.calls > 0
    /\ housekeeping.remote_instance = "target"
    /\ housekeeping.connector_ids = {2}
    /\ housekeeping.delete_nodes = <<2>>
    /\ connector_type[2] = "absent"
    /\ connector_type[1] = "linked"
    /\ \E c \in ConnectorIds : source_connector_type[c] = "null"

(* C28: writer/resolver round trip: for every linking relation that a       *)
(* *_neurons_by_skid operation writes into a linking annotation (copy,      *)
(* translation, affine with any transform file, elastic with and without    *)
(* flip, volume pruning in 'fele' and in 'strict' mode, radius pruning),    *)
(* the push that reads that annotation on the one skeleton carrying it      *)
(* selects the operation that wrote it, and no other.                       *)
Writers == Ops \ {"upload"}

C28_WriterResolverRoundTrip ==
    \A op \in Writers :
        (/\ pc = "push"
         /\ last_push.target_annot =
              add_escapes(linking_annotation_target(linking_relation_of(op),
                                                    last_push.source_skid, InitialSource))
         /\ Cardinality(last_push.target_skids) = 1
         /\ last_push.dispatched = <<>> /\ last_push.skipped = <<>>
         /\ ~last_push.raised)
        => [i \in 1..Len(push.pending) |-> push.pending[i].op] = <<op>>

(* C29: when a transform or an upload raises during a recursive push        *)
(* (recurse=True, fake=False), the push leaves the source handle's project  *)
(* id at the value it had when the call started.                            *)
C29_ProjectIdRestoredOnError ==
    [][(pc = "push" /\ push.recurse /\ ~push.fake /\ last_push'.raised)
        => source_project'.project_id = push.original_source_project_id]_vars

(* C30: warp_points_FANC_to_template and warp_points_template_to_FANC give  *)
(* a single point passed as a 1-D array the same result as the same point   *)
(* passed as a one-row 2-D array, for every value of the reflect flag.      *)
C30_OneRowAsOnePoint ==
    \A f \in WarpFunctions :
        (warp_log.returned[f][1] # <<>> /\ warp_log.returned[f][2] # <<>>)
            => warp_log.returned[f][1][1].data = warp_log.returned[f][2][1].data[1]

====
